---- MODULE Spec2Model ----
(***************************************************************************)
(* A model of did-siop-lib: the key extraction chain (DidVerificationKey   *)
(* extractors), the CombinedDidResolver chain and the Provider.            *)
(*                                                                         *)
(* Strings stand for JavaScript values; the empty string "" stands for     *)
(* every falsy value (undefined, null, '').                                *)
(***************************************************************************)
EXTENDS Integers, Sequences, FiniteSets, TLC

(***************************************************************************)
(* Bounds of the model.                                                    *)
(***************************************************************************)
\* longest signing_info_set the model lets addSigningParams build
MaxSigning == 2
\* longest resolver chain the model lets addResolver build
MaxChain == 2
\* number of CombinedDidResolver.resolve calls that may be in flight at once
MaxCalls == 2
\* number of generateResponse calls that may be in flight at once
MaxInflight == 1
\* number of clock ticks the model lets pass during one exchange
MaxTicks == 3

(***************************************************************************)
(* Error names.                                                            *)
(***************************************************************************)
NO_SIGNING_INFO == "NoSigningInfo"
UNRESOLVED_IDENTITY == "UnresolvedIdentity"
NO_PUBLIC_KEY == "NoMatchingPublicKey"
NO_MATCHING_PUBLIC_KEY == "NoMatchingPublicKey"
UNSUPPORTED_PUBLIC_KEY_METHOD == "UnsupportedPublicKeyMethod"
UNSUPPORTED_KEY_FORMAT == "UnsupportedKeyFormat"
DOCUMENT_RESOLUTION_ERROR == "DocumentResolutionError"

(***************************************************************************)
(* globals: key families, key formats in declaration order.                *)
(***************************************************************************)
KTYS == {"RSA", "EC", "OKP"}

KEY_FORMATS ==
  << "PKCS8_PEM", "PKCS1_PEM", "HEX", "BASE58", "BASE64", "JWK",
     "ETHEREUM_ADDRESS", "ADDRESS" >>

(***************************************************************************)
(* Key extraction chain.                                                   *)
(***************************************************************************)
\* String.prototype.toUpperCase on the type tags the model uses.
ToUpperCase(s) ==
  CASE s \in {"EcdsaSecp256k1RecoveryMethod2020", "ecdsasecp256k1recoverymethod2020"}
         -> "ECDSASECP256K1RECOVERYMETHOD2020"
    [] s \in {"EcdsaSecp256r1VerificationKey2019", "ecdsasecp256r1verificationkey2019"}
         -> "ECDSASECP256R1VERIFICATIONKEY2019"
    [] s \in {"EcdsaSecp256k1VerificationKey2019", "ecdsasecp256k1verificationkey2019"}
         -> "ECDSASECP256K1VERIFICATIONKEY2019"
    [] s \in {"Secp256k1VerificationKey2018", "secp256k1verificationkey2018"}
         -> "SECP256K1VERIFICATIONKEY2018"
    [] s \in {"Secp256k1", "secp256k1", "SECP256K1"} -> "SECP256K1"
    [] s \in {"RsaVerificationKey2018", "rsaverificationkey2018"}
         -> "RSAVERIFICATIONKEY2018"
    [] s \in {"GpgVerificationKey2020", "gpgverificationkey2020"}
         -> "GPGVERIFICATIONKEY2020"
    [] s \in {"Ed25519VerificationKey2018", "ed25519verificationkey2018"}
         -> "ED25519VERIFICATIONKEY2018"
    [] s \in {"ED25519SignatureVerification", "ed25519signatureverification"}
         -> "ED25519SIGNATUREVERIFICATION"
    [] s \in {"JwsVerificationKey2020", "jwsverificationkey2020"}
         -> "JWSVERIFICATIONKEY2020"
    [] s \in {"X25519KeyAgreementKey2019", "x25519keyagreementkey2019"}
         -> "X25519KEYAGREEMENTKEY2019"
    [] OTHER -> s

\* The names each extractor is constructed with (stored in upper case).
JwsNames == { ToUpperCase("JwsVerificationKey2020") }
Ed25519Names ==
  { ToUpperCase("Ed25519VerificationKey2018"),
    ToUpperCase("ED25519SignatureVerification") }
GpgNames == { ToUpperCase("GpgVerificationKey2020") }
RsaNames == { ToUpperCase("RsaVerificationKey2018") }
Secp256k1Names ==
  { ToUpperCase("EcdsaSecp256k1VerificationKey2019"),
    ToUpperCase("Secp256k1VerificationKey2018"),
    ToUpperCase("Secp256k1") }
Secp256r1Names == { ToUpperCase("EcdsaSecp256r1VerificationKey2019") }
RecoveryNames == { ToUpperCase("EcdsaSecp256k1RecoveryMethod2020") }

\* An absent verification method (the argument is undefined).
NoMethod ==
  [ present |-> FALSE, id |-> "", type |-> "", publicKeyJwk |-> "",
    publicKeyHex |-> "", publicKeyBase58 |-> "", publicKeyBase64 |-> "",
    publicKeyPem |-> "", publicKeyPgp |-> "", publicKeyGpg |-> "",
    ethereumAddress |-> "", address |-> "" ]

\* A verification method with an id and a type and no encoding field.
Method(id, type) == [ NoMethod EXCEPT !.present = TRUE, !.id = id, !.type = type ]

\* A thrown error / a returned DidVerificationKey.
Thrown(e) ==
  [ ok |-> FALSE, err |-> e, id |-> "", kty |-> "", alg |-> "",
    format |-> "", publicKey |-> "" ]
Extracted(id, kty, alg, format, publicKey) ==
  [ ok |-> TRUE, err |-> "", id |-> id, kty |-> kty, alg |-> alg,
    format |-> format, publicKey |-> publicKey ]

\* toChecksumAddress of the ethereum-checksum-address package: the EIP-55
\* mixed-case form of an address, whatever case it was written in.
toChecksumAddress(a) ==
  CASE a \in {"0xaddr_s2", "0xADDR_S2", "0xAdDr_S2"} -> "0xAdDr_S2"
    [] a \in {"0xaddr_s1", "0xADDR_S1", "0xAdDr_S1"} -> "0xAdDr_S1"
    [] OTHER -> a

\* getKeyType / getAlgorithm of Utils applied to the kty / alg of a JWK.
JwkKty(jwk) ==
  CASE jwk = "jwk_EC_ES256K_s1" -> "EC"
    [] jwk = "jwk_OKP_EdDSA_s4" -> "OKP"
    [] jwk = "jwk_oct_HS256" -> "oct"
    [] OTHER -> ""
JwkAlg(jwk) ==
  CASE jwk = "jwk_EC_ES256K_s1" -> "ES256K"
    [] jwk = "jwk_OKP_EdDSA_s4" -> "EdDSA"
    [] jwk = "jwk_oct_HS256" -> "HS256"
    [] OTHER -> ""

\* getVerificationKeyFromDifferentFormats returning the holder as it came
\* when no encoding field is populated
getVerificationKeyFromDifferentFormats_KeepsHolder(method, holder) ==
  IF ~method.present \/ ~holder.ok THEN Thrown(UNSUPPORTED_KEY_FORMAT)
  ELSE IF method.publicKeyJwk # "" THEN
    [ holder EXCEPT !.format = "JWK", !.publicKey = method.publicKeyJwk ]
  ELSE IF method.publicKeyHex # "" THEN
    [ holder EXCEPT !.format = "HEX", !.publicKey = method.publicKeyHex ]
  ELSE IF method.publicKeyBase58 # "" THEN
    [ holder EXCEPT !.format = "BASE58", !.publicKey = method.publicKeyBase58 ]
  ELSE IF method.publicKeyBase64 # "" THEN
    [ holder EXCEPT !.format = "BASE64", !.publicKey = method.publicKeyBase64 ]
  ELSE IF method.publicKeyPem # "" THEN
    [ holder EXCEPT !.format = "PKCS8_PEM", !.publicKey = method.publicKeyPem ]
  ELSE IF method.publicKeyPgp # "" THEN
    [ holder EXCEPT !.format = "PKCS8_PEM", !.publicKey = method.publicKeyGpg ]
  ELSE IF method.ethereumAddress # "" THEN
    [ holder EXCEPT !.format = "ETHEREUM_ADDRESS",
                    !.publicKey = toChecksumAddress(method.ethereumAddress) ]
  ELSE IF method.address # "" THEN
    [ holder EXCEPT !.format = "ADDRESS", !.publicKey = method.address ]
  ELSE holder

getVerificationKeyFromDifferentFormats(method, holder) ==
  IF ~method.present \/ ~holder.ok THEN Thrown(UNSUPPORTED_KEY_FORMAT)
  ELSE
    LET probed ==
          IF method.publicKeyJwk # "" THEN
            [ holder EXCEPT !.format = "JWK", !.publicKey = method.publicKeyJwk ]
          ELSE IF method.publicKeyHex # "" THEN
            [ holder EXCEPT !.format = "HEX", !.publicKey = method.publicKeyHex ]
          ELSE IF method.publicKeyBase58 # "" THEN
            [ holder EXCEPT !.format = "BASE58", !.publicKey = method.publicKeyBase58 ]
          ELSE IF method.publicKeyBase64 # "" THEN
            [ holder EXCEPT !.format = "BASE64", !.publicKey = method.publicKeyBase64 ]
          ELSE IF method.publicKeyPem # "" THEN
            [ holder EXCEPT !.format = "PKCS8_PEM", !.publicKey = method.publicKeyPem ]
          ELSE IF method.publicKeyPgp # "" THEN
            [ holder EXCEPT !.format = "PKCS8_PEM", !.publicKey = method.publicKeyGpg ]
          ELSE IF method.ethereumAddress # "" THEN
            [ holder EXCEPT !.format = "ETHEREUM_ADDRESS",
                            !.publicKey = toChecksumAddress(method.ethereumAddress) ]
          ELSE IF method.address # "" THEN
            [ holder EXCEPT !.format = "ADDRESS", !.publicKey = method.address ]
          ELSE Thrown(UNSUPPORTED_KEY_FORMAT)
    IN IF probed.ok /\ probed.format # "" /\ probed.publicKey # ""
       THEN probed
       ELSE Thrown(UNSUPPORTED_KEY_FORMAT)

\* no extract call has been made
NotExtracted == Thrown("")

\* Unidentified testing the id alone
Unidentified_IdOnly(method) == ~method.present \/ method.id = ""

\* The guard every extractor starts with.
Unidentified(method) == ~method.present \/ method.id = "" \/ method.type = ""

EmptyExtract(method) == Thrown(UNSUPPORTED_PUBLIC_KEY_METHOD)

JwsExtract(method) ==
  IF Unidentified(method) THEN Thrown(NO_MATCHING_PUBLIC_KEY)
  ELSE IF ToUpperCase(method.type) \in JwsNames THEN
    IF method.publicKeyJwk # "" THEN
      Extracted(method.id, JwkKty(method.publicKeyJwk),
                JwkAlg(method.publicKeyJwk), "JWK", method.publicKeyJwk)
    ELSE Thrown(UNSUPPORTED_PUBLIC_KEY_METHOD)
  ELSE EmptyExtract(method)

Ed25519Extract(method) ==
  IF Unidentified(method) THEN Thrown(NO_MATCHING_PUBLIC_KEY)
  ELSE IF ToUpperCase(method.type) \in Ed25519Names THEN
    getVerificationKeyFromDifferentFormats(
      method, Extracted(method.id, "OKP", "EdDSA", "HEX", ""))
  ELSE JwsExtract(method)

GpgExtract(method) ==
  IF Unidentified(method) THEN Thrown(NO_MATCHING_PUBLIC_KEY)
  ELSE IF ToUpperCase(method.type) \in GpgNames THEN
    IF method.publicKeyGpg # "" THEN
      Extracted(method.id, "RSA", "RS256", "PKCS8_PEM", method.publicKeyGpg)
    ELSE Thrown(UNSUPPORTED_PUBLIC_KEY_METHOD)
  ELSE Ed25519Extract(method)

\* RsaExtract comparing the type tag as written
RsaExtract_CaseSensitive(method) ==
  IF Unidentified(method) THEN Thrown(NO_MATCHING_PUBLIC_KEY)
  ELSE IF method.type \in { "RsaVerificationKey2018" } THEN
    getVerificationKeyFromDifferentFormats(
      method, Extracted(method.id, "RSA", "RS256", "HEX", ""))
  ELSE GpgExtract(method)

RsaExtract(method) ==
  IF Unidentified(method) THEN Thrown(NO_MATCHING_PUBLIC_KEY)
  ELSE IF ToUpperCase(method.type) \in RsaNames THEN
    getVerificationKeyFromDifferentFormats(
      method, Extracted(method.id, "RSA", "RS256", "HEX", ""))
  ELSE GpgExtract(method)

Secp256k1Extract(method) ==
  IF Unidentified(method) THEN Thrown(NO_MATCHING_PUBLIC_KEY)
  ELSE IF ToUpperCase(method.type) \in Secp256k1Names THEN
    getVerificationKeyFromDifferentFormats(
      method, Extracted(method.id, "EC", "ES256K", "HEX", ""))
  ELSE RsaExtract(method)

Secp256r1Extract(method) ==
  IF Unidentified(method) THEN Thrown(NO_MATCHING_PUBLIC_KEY)
  ELSE IF ToUpperCase(method.type) \in Secp256r1Names THEN
    getVerificationKeyFromDifferentFormats(
      method, Extracted(method.id, "EC", "ES256", "HEX", ""))
  ELSE Secp256k1Extract(method)

\* RecoveryExtract matching on the type tag alone
RecoveryExtract_ByTagOnly(method) ==
  IF Unidentified(method) THEN Thrown(NO_MATCHING_PUBLIC_KEY)
  ELSE IF ToUpperCase(method.type) \in RecoveryNames THEN
    getVerificationKeyFromDifferentFormats(
      method, Extracted(method.id, "EC", "ES256K-R", "HEX", ""))
  ELSE Secp256r1Extract(method)

RecoveryExtract(method) ==
  IF Unidentified(method) THEN Thrown(NO_MATCHING_PUBLIC_KEY)
  ELSE IF ToUpperCase(method.type) \in RecoveryNames \/ method.ethereumAddress # "" THEN
    getVerificationKeyFromDifferentFormats(
      method, Extracted(method.id, "EC", "ES256K-R", "HEX", ""))
  ELSE Secp256r1Extract(method)

\* uniExtractor.extract
UniExtract(method) == RecoveryExtract(method)


(***************************************************************************)
(* DID documents the model resolves and sets.                              *)
(***************************************************************************)
NoDoc == [ id |-> "", authentication |-> << >> ]

DocA ==
  [ id |-> "did:a",
    authentication |->
      << [ Method("did:a#k1", "EcdsaSecp256k1VerificationKey2019")
             EXCEPT !.publicKeyHex = "pub_s1" ],
         [ Method("did:a#k2", "EcdsaSecp256k1RecoveryMethod2020")
             EXCEPT !.ethereumAddress = "0xaddr_s2" ],
         [ Method("did:a#k3", "RsaVerificationKey2018")
             EXCEPT !.publicKeyPem = "pub_s3" ],
         [ Method("did:a#k4", "secp256k1")
             EXCEPT !.publicKeyHex = "pub_s2" ] >> ]

DocB ==
  [ id |-> "did:b",
    authentication |->
      << [ Method("did:b#k1", "X25519KeyAgreementKey2019")
             EXCEPT !.publicKeyBase58 = "pub_s5" ],
         [ Method("did:b#k2", "Ed25519VerificationKey2018")
             EXCEPT !.publicKeyBase58 = "pub_s4" ],
         [ Method("did:b#k3", "Secp256k1VerificationKey2018")
             EXCEPT !.publicKeyHex = "pub_s1" ] >> ]

Docs == { DocA, DocB }
Dids == { d.id : d \in Docs }
DocOf(did) == CHOOSE d \in Docs : d.id = did

(***************************************************************************)
(* Private key strings handed to addSigningParams, and what the key        *)
(* classes of jwk-utils and checkKeyPair of utils make of them.            *)
(***************************************************************************)
PrivateKeys == { "hex_s1", "hex_s2", "pem_s3", "z_s4", "hex_s9" }

\* the secret a private key string encodes
KeySecret(key) ==
  CASE key = "hex_s1" -> "s1"
    [] key = "hex_s2" -> "s2"
    [] key = "pem_s3" -> "s3"
    [] key \in {"z_s4", "b58_s4"} -> "s4"
    [] OTHER -> "s9"

\* the key formats under which the string decodes to that secret
KeyFormatsOf(key) ==
  CASE key \in {"hex_s1", "hex_s2", "hex_s9"} -> {"HEX"}
    [] key = "pem_s3" -> {"PKCS8_PEM", "PKCS1_PEM"}
    [] key = "b58_s4" -> {"BASE58"}
    [] OTHER -> {}

\* the formats under which the string decodes, but to some other key
KeyMisreadFormats(key) ==
  CASE key \in {"hex_s1", "hex_s2", "hex_s9"} -> {"BASE64"}
    [] OTHER -> {}

\* the key family of a secret
SecretKty(s) ==
  CASE s \in {"s1", "s2", "s9"} -> "EC"
    [] s = "s3" -> "RSA"
    [] s = "s4" -> "OKP"
    [] OTHER -> ""

\* the secret whose public half a public key value is ("" when the value
\* is no key the key classes can import)
PubSecret(pub) ==
  CASE pub \in {"pub_s1", "jwk_EC_ES256K_s1"} -> "s1"
    [] pub = "pub_s2" -> "s2"
    [] pub = "pub_s3" -> "s3"
    [] pub \in {"pub_s4", "jwk_OKP_EdDSA_s4"} -> "s4"
    [] OTHER -> ""

\* the checksummed Ethereum address derived from a secret's public key
AddressOf(s) ==
  CASE s = "s1" -> "0xAdDr_S1"
    [] s = "s2" -> "0xAdDr_S2"
    [] OTHER -> "0xAdDr_none"

isMultibasePvtKey(key) == key = "z_s4"

getBase58fromMultibase(key) == IF key = "z_s4" THEN "b58_s4" ELSE key

\* Key.fromKey on a private KeyInfo: "throw", or the secret it imports
\* ("garbage" when the string decodes to a key that is no one's).
PrivateFromKey(key, kty, format) ==
  IF SecretKty(KeySecret(key)) # kty THEN "throw"
  ELSE IF format \in KeyFormatsOf(key) THEN KeySecret(key)
  ELSE IF format \in KeyMisreadFormats(key) THEN "garbage"
  ELSE "throw"

\* Key.fromKey on a public KeyInfo: "throw", or the secret it is the public half of.
PublicFromKey(didPublicKey) ==
  IF PubSecret(didPublicKey.publicKey) = "" THEN "throw"
  ELSE IF SecretKty(PubSecret(didPublicKey.publicKey)) # didPublicKey.kty THEN "throw"
  ELSE PubSecret(didPublicKey.publicKey)

\* checkKeyPair with the ordinary signer / verifier of a key family.
checkKeyPair(privateSecret, publicSecret) == privateSecret = publicSecret

\* checkKeyPair with ES256KRecoverableSigner / Verifier: the address
\* recovered from the probe signature against the stored address.
checkKeyPairRecoverable(privateSecret, address) == AddressOf(privateSecret) = address


(***************************************************************************)
(* The relying party and the results of the protocol's calls.              *)
(***************************************************************************)
\* no relying party has been set up
NoRp == [ did |-> "", signing_info_set |-> << >> ]

\* a protocol call that has not been made
NotCalled == [ status |-> "none" ]

(***************************************************************************)
(* State.                                                                  *)
(*   identity            the DID document the Provider's Identity holds    *)
(*                       (NoDoc while unresolved)                          *)
(*   signing_info_set    Provider.signing_info_set                         *)
(*   provider_resolvers  Provider.resolvers                                *)
(*   resolvers           CombinedDidResolver.resolvers, the chain          *)
(*   calls               the resolveDidDocumet calls in flight; call 0 is  *)
(*                       the one Provider.setUser awaits.  Of each: where  *)
(*                       it stands (pc), the loop's position (idx), the    *)
(*                       resolvers invoked so far and what each did        *)
(*                       (tried), and the position of the resolver whose   *)
(*                       document is returned (from)                       *)
(*   inflight            the response builds generateResponse awaits       *)
(*   lastCall            the Provider operation that ran last and how it   *)
(*                       ended                                             *)
(*   added_kids          history: kids added and not removed since         *)
(*   ever_removed        history: some added kid has been removed          *)
(*   method              the verification method handed to                 *)
(*                       uniExtractor.extract                              *)
(*   extracted           what that call returned or threw (NotExtracted    *)
(*                       before the call)                                  *)
(*   rp                  the relying party: its DID and its signing info   *)
(*   request             what rp.generateRequest returned or threw, with   *)
(*                       the options it was called with and the default    *)
(*                       claims it merged them over                        *)
(*   validated           what provider.validateRequest returned or threw   *)
(*   response            what provider.generateResponse returned or threw  *)
(*   verdict             what rp.validateResponse returned or threw        *)
(*   now                 Date.now()                                        *)
(***************************************************************************)
VARIABLES identity, signing_info_set, provider_resolvers, resolvers, calls,
          inflight, lastCall, added_kids, ever_removed, method, extracted,
          rp, request, validated, response, verdict, now

vars == << identity, signing_info_set, provider_resolvers, resolvers, calls,
           inflight, lastCall, added_kids, ever_removed, method, extracted,
           rp, request, validated, response, verdict, now >>

extractorVars == << method, extracted >>

protocolVars == << rp, request, validated, response, verdict, now >>

providerVars == << identity, signing_info_set, provider_resolvers, inflight,
                   added_kids, ever_removed >>

\* a lastCall value: the operation, its argument, the value it returned or
\* the error it threw, the kid it returned or signs with, and the number of
\* signing_info_set entries it dropped
Call(op, arg, result, kid, dropped) ==
  [ op |-> op, arg |-> arg, result |-> result, kid |-> kid, dropped |-> dropped ]

(***************************************************************************)
(* CombinedDidResolver.                                                    *)
(***************************************************************************)
\* the resolver resolveDidDocumet constructs when the chain is empty
UniResolver == "uniresolver"
\* resolvers a caller can construct and add
UserResolvers == { "ethr", "key" }
\* what one resolver's resolve(did) can do
Outcomes == { "throw", "empty", "doc" }

CallIds == 0 .. MaxCalls
IdleCall == [ pc |-> "idle", did |-> "", idx |-> 0, tried |-> << >>, from |-> 0 ]

Invoke(r) == [ resolver |-> r, outcome |-> "pending" ]

\* addResolver putting the resolver at the head of the chain
addResolver_Prepends(rs, r) == << r >> \o rs

\* addResolver
addResolver(rs, r) == Append(rs, r)

\* ChainForResolve adding the universal resolver on every call
ChainForResolve_Always(rs) == addResolver(rs, UniResolver)

\* resolveDidDocumet up to the loop: the chain the loop then iterates
ChainForResolve(rs) == IF Len(rs) = 0 THEN addResolver(rs, UniResolver) ELSE rs

\* resolveDidDocumet from the loop's head to its first await
EnterLoop(rs, did) ==
  IF Len(rs) = 0
  THEN [ IdleCall EXCEPT !.pc = "failed", !.did = did ]
  ELSE [ IdleCall EXCEPT !.pc = "awaiting", !.did = did, !.idx = 1,
                         !.tried = << Invoke(rs[1]) >> ]

\* AfterSettle letting a resolver's error end the call
AfterSettle_AbortOnThrow(call, rs, outcome) ==
  LET settled == [ call.tried EXCEPT ![call.idx].outcome = outcome ]
  IN IF outcome = "doc"
     THEN [ call EXCEPT !.pc = "returned", !.tried = settled, !.from = call.idx ]
     ELSE IF outcome = "empty" /\ call.idx < Len(rs)
     THEN [ call EXCEPT !.idx = call.idx + 1,
                        !.tried = Append(settled, Invoke(rs[call.idx + 1])) ]
     ELSE [ call EXCEPT !.pc = "failed", !.tried = settled ]

\* AfterSettle returning whatever a resolver returns, an empty result too
AfterSettle_ReturnsEmpty(call, rs, outcome) ==
  LET settled == [ call.tried EXCEPT ![call.idx].outcome = outcome ]
  IN IF outcome # "throw"
     THEN [ call EXCEPT !.pc = "returned", !.tried = settled, !.from = call.idx ]
     ELSE IF call.idx < Len(rs)
     THEN [ call EXCEPT !.idx = call.idx + 1,
                        !.tried = Append(settled, Invoke(rs[call.idx + 1])) ]
     ELSE [ call EXCEPT !.pc = "failed", !.tried = settled ]

\* AfterSettle asking a resolver that threw once more
AfterSettle_RetriesThrow(call, rs, outcome) ==
  LET settled == [ call.tried EXCEPT ![Len(call.tried)].outcome = outcome ]
  IN IF outcome = "doc"
     THEN [ call EXCEPT !.pc = "returned", !.tried = settled, !.from = call.idx ]
     ELSE IF outcome = "throw" /\ Len(call.tried) = call.idx
     THEN [ call EXCEPT !.tried = Append(settled, Invoke(rs[call.idx])) ]
     ELSE IF call.idx < Len(rs)
     THEN [ call EXCEPT !.idx = call.idx + 1,
                        !.tried = Append(settled, Invoke(rs[call.idx + 1])) ]
     ELSE [ call EXCEPT !.pc = "failed", !.tried = settled ]

\* resolveDidDocumet from the settling of the awaited resolver.resolve(did)
\* to the next await, the return or the throw
AfterSettle(call, rs, outcome) ==
  LET settled == [ call.tried EXCEPT ![call.idx].outcome = outcome ]
  IN IF outcome = "doc"
     THEN [ call EXCEPT !.pc = "returned", !.tried = settled, !.from = call.idx ]
     ELSE IF call.idx < Len(rs)
     THEN [ call EXCEPT !.idx = call.idx + 1,
                        !.tried = Append(settled, Invoke(rs[call.idx + 1])) ]
     ELSE [ call EXCEPT !.pc = "failed", !.tried = settled ]

\* combinedDidResolver.addResolver(r) by a caller
AddResolver(r) ==
  /\ Len(resolvers) < MaxChain
  /\ resolvers' = addResolver(resolvers, r)
  /\ UNCHANGED << calls, lastCall, providerVars, extractorVars, protocolVars >>

\* Resolve with a suspension between the emptiness check and the append:
\* a call whose check ran before another call's append appends too
Resolve_AppendsAfterSuspension(c, did) ==
  /\ c # 0
  /\ calls[c].pc = "idle"
  /\ resolvers' =
       IF \/ Len(resolvers) = 0
          \/ /\ resolvers = << UniResolver >>
             /\ \E d \in CallIds \ { c } : calls[d].pc = "awaiting"
       THEN addResolver(resolvers, UniResolver)
       ELSE resolvers
  /\ calls' = [ calls EXCEPT ![c] = EnterLoop(resolvers', did) ]
  /\ UNCHANGED << lastCall, providerVars, extractorVars, protocolVars >>

\* combinedDidResolver.resolve(did) by a caller, up to its first await
Resolve(c, did) ==
  /\ c # 0
  /\ calls[c].pc = "idle"
  /\ resolvers' = ChainForResolve(resolvers)
  /\ calls' = [ calls EXCEPT ![c] = EnterLoop(resolvers', did) ]
  /\ UNCHANGED << lastCall, providerVars, extractorVars, protocolVars >>

\* the resolver a call awaits settles: the call runs on to its next await or its end
ResolverSettles(c, outcome) ==
  /\ calls[c].pc = "awaiting"
  /\ calls' = [ calls EXCEPT ![c] = AfterSettle(calls[c], resolvers, outcome) ]
  /\ UNCHANGED << resolvers, lastCall, providerVars, extractorVars, protocolVars >>

\* the caller of an ended resolve takes its result
Collect(c) ==
  /\ c # 0
  /\ calls[c].pc \in { "returned", "failed" }
  /\ calls' = [ calls EXCEPT ![c] = IdleCall ]
  /\ UNCHANGED << resolvers, lastCall, providerVars, extractorVars, protocolVars >>

(***************************************************************************)
(* Identity.                                                               *)
(***************************************************************************)
isResolved(doc) == doc.id # ""

\* Identity.extractAuthenticationKeys: the CanonicalKeys of the document's
\* authentication methods, in document order; a method the extraction
\* chain refuses contributes no key.
extractAuthenticationKeys(doc) ==
  LET keys == [ i \in 1 .. Len(doc.authentication) |-> UniExtract(doc.authentication[i]) ]
  IN SelectSeq(keys, LAMBDA k : k.ok)

\* Identity.addResolvers: every given resolver joins the chain
RECURSIVE addResolvers(_, _)
addResolvers(rs, given) ==
  IF given = << >> THEN rs
  ELSE addResolvers(addResolver(rs, Head(given)), Tail(given))

(***************************************************************************)
(* Provider.addSigningParams.                                              *)
(***************************************************************************)
\* Verifier choosing the recoverable variant by the key's algorithm
Verifier_ByAlgorithm(didPublicKey) ==
  CASE didPublicKey.kty = "RSA" -> "RSAVerifier"
    [] didPublicKey.kty = "EC" ->
         IF didPublicKey.alg = "ES256K-R"
         THEN "ES256KRecoverableVerifier" ELSE "ECVerifier"
    [] didPublicKey.kty = "OKP" -> "OKPVerifier"
    [] OTHER -> "none"

\* the switch on didPublicKey.kty: the verifier (and with it the signer)
\* constructed for the trial, "none" in the default branch
Verifier(didPublicKey) ==
  CASE didPublicKey.kty = "RSA" -> "RSAVerifier"
    [] didPublicKey.kty = "EC" ->
         IF didPublicKey.format = "ETHEREUM_ADDRESS"
         THEN "ES256KRecoverableVerifier" ELSE "ECVerifier"
    [] didPublicKey.kty = "OKP" -> "OKPVerifier"
    [] OTHER -> "none"

\* the try block for one (didPublicKey, key_format): "skip" (the default
\* branch), "throw" (caught, continue), "false" or "true" (checkKeyPair)
Trial(didPublicKey, key, format) ==
  LET priv == PrivateFromKey(key, didPublicKey.kty, format)
      pub == PublicFromKey(didPublicKey)
      verifier == Verifier(didPublicKey)
  IN CASE verifier = "none" -> "skip"
       [] verifier = "ES256KRecoverableVerifier" ->
            IF priv = "throw" THEN "throw"
            ELSE IF checkKeyPairRecoverable(priv, didPublicKey.publicKey)
                 THEN "true" ELSE "false"
       [] OTHER ->
            IF priv = "throw" \/ pub = "throw" THEN "throw"
            ELSE IF checkKeyPair(priv, pub) THEN "true" ELSE "false"

NumFormats == Len(KEY_FORMATS)

\* the loops' p-th iteration: public key ((p-1) div NumFormats) + 1, format ((p-1) mod NumFormats) + 1
KeyAt(p) == ((p - 1) \div NumFormats) + 1
FormatAt(p) == ((p - 1) % NumFormats) + 1

\* FirstMatch settling for the first iteration when no checkKeyPair succeeds
FirstMatch_FallsBackToFirst(didPublicKeySet, key) ==
  LET hits == { p \in 1 .. Len(didPublicKeySet) * NumFormats :
                  Trial(didPublicKeySet[KeyAt(p)], key, KEY_FORMATS[FormatAt(p)]) = "true" }
  IN IF hits = {} THEN (IF Len(didPublicKeySet) > 0 THEN 1 ELSE 0)
     ELSE CHOOSE p \in hits : \A q \in hits : p <= q

\* FirstMatch settling for the last iteration whose checkKeyPair succeeds
FirstMatch_LastHit(didPublicKeySet, key) ==
  LET hits == { p \in 1 .. Len(didPublicKeySet) * NumFormats :
                  Trial(didPublicKeySet[KeyAt(p)], key, KEY_FORMATS[FormatAt(p)]) = "true" }
  IN IF hits = {} THEN 0 ELSE CHOOSE p \in hits : \A q \in hits : p >= q

\* the first iteration of the nested loops whose checkKeyPair succeeds (0: none)
FirstMatch(didPublicKeySet, key) ==
  LET hits == { p \in 1 .. Len(didPublicKeySet) * NumFormats :
                  Trial(didPublicKeySet[KeyAt(p)], key, KEY_FORMATS[FormatAt(p)]) = "true" }
  IN IF hits = {} THEN 0 ELSE CHOOSE p \in hits : \A q \in hits : p <= q

\* SigningInfo with the algorithm guessed from the format the loop is at
SigningInfo_AlgFromFormat(didPublicKey, key, format) ==
  [ alg |-> IF format \in { "PKCS8_PEM", "PKCS1_PEM" } THEN "RS256" ELSE "ES256K",
    kid |-> didPublicKey.id, key |-> key, format |-> format ]

\* SigningInfo with an assumed default algorithm
SigningInfo_DefaultAlg(didPublicKey, key, format) ==
  [ alg |-> "ES256K", kid |-> didPublicKey.id, key |-> key, format |-> format ]

\* the SigningInfo pushed for a successful combination
SigningInfo(didPublicKey, key, format) ==
  [ alg |-> didPublicKey.alg, kid |-> didPublicKey.id, key |-> key, format |-> format ]

\* the key the loops try: a multibase key is first turned into base58
NormalisedKey(key) == IF isMultibasePvtKey(key) THEN getBase58fromMultibase(key) ELSE key

\* addSigningParams letting the error of a try block that throws through
addSigningParams_ThrowSurfaces(doc, rawKey) ==
  IF ~isResolved(doc)
  THEN [ result |-> UNRESOLVED_IDENTITY, kid |-> "", pushed |-> << >> ]
  ELSE
    LET didPublicKeySet == extractAuthenticationKeys(doc)
        key == NormalisedKey(rawKey)
        p == FirstMatch(didPublicKeySet, key)
        thrown == { q \in 1 .. Len(didPublicKeySet) * NumFormats :
                      Trial(didPublicKeySet[KeyAt(q)], key, KEY_FORMATS[FormatAt(q)]) = "throw" }
    IN IF \E q \in thrown : p = 0 \/ q < p
       THEN [ result |-> "KeyError", kid |-> "", pushed |-> << >> ]
       ELSE IF p = 0
       THEN [ result |-> NO_PUBLIC_KEY, kid |-> "", pushed |-> << >> ]
       ELSE [ result |-> "ok", kid |-> didPublicKeySet[KeyAt(p)].id,
              pushed |-> << SigningInfo(didPublicKeySet[KeyAt(p)], key,
                                        KEY_FORMATS[FormatAt(p)]) >> ]

\* addSigningParams from its first line to its return or throw: the kid
\* returned or the error thrown, and the SigningInfo pushed
addSigningParams(doc, rawKey) ==
  IF ~isResolved(doc)
  THEN [ result |-> UNRESOLVED_IDENTITY, kid |-> "", pushed |-> << >> ]
  ELSE
    LET didPublicKeySet == extractAuthenticationKeys(doc)
        key == NormalisedKey(rawKey)
        p == FirstMatch(didPublicKeySet, key)
    IN IF p = 0
       THEN [ result |-> NO_PUBLIC_KEY, kid |-> "", pushed |-> << >> ]
       ELSE [ result |-> "ok", kid |-> didPublicKeySet[KeyAt(p)].id,
              pushed |-> << SigningInfo(didPublicKeySet[KeyAt(p)], key,
                                        KEY_FORMATS[FormatAt(p)]) >> ]

\* addSigningParams tabulated over the documents and keys of the model
AddSigningParamsOf ==
  [ doc \in Docs \cup { NoDoc }, key \in PrivateKeys |-> addSigningParams(doc, key) ]

AddSigningParams(key) ==
  LET r == AddSigningParamsOf[identity, key]
  IN /\ Len(signing_info_set) + Len(r.pushed) <= MaxSigning
     /\ signing_info_set' = signing_info_set \o r.pushed
     /\ lastCall' = Call("addSigningParams", key, r.result, r.kid, 0)
     /\ added_kids' = IF r.result = "ok" THEN added_kids \cup { r.kid } ELSE added_kids
     /\ UNCHANGED << identity, provider_resolvers, resolvers, calls, inflight,
                     ever_removed, extractorVars, protocolVars >>

(***************************************************************************)
(* Provider.removeSigningParams.                                           *)
(***************************************************************************)
\* removeSigningParams dropping only the first entry with the kid
removeSigningParams_FirstOnly(set, kid) ==
  LET at == { i \in 1 .. Len(set) : set[i].kid = kid }
  IN IF at = {} THEN set
     ELSE LET i == CHOOSE a \in at : \A b \in at : a <= b
          IN SubSeq(set, 1, i - 1) \o SubSeq(set, i + 1, Len(set))

\* removeSigningParams with the filter's test inverted
removeSigningParams_Inverted(set, kid) == SelectSeq(set, LAMBDA s : s.kid = kid)

removeSigningParams(set, kid) == SelectSeq(set, LAMBDA s : s.kid # kid)

RemoveSigningParams(kid) ==
  /\ signing_info_set' = removeSigningParams(signing_info_set, kid)
  /\ lastCall' = Call("removeSigningParams", kid, "ok", "",
                    Len(signing_info_set) - Len(signing_info_set'))
  /\ added_kids' = added_kids \ { kid }
  /\ ever_removed' = (ever_removed \/ kid \in added_kids)
  /\ UNCHANGED << identity, provider_resolvers, resolvers, calls, inflight, extractorVars, protocolVars >>

(***************************************************************************)
(* Provider.setUser.                                                       *)
(***************************************************************************)
\* Identity.setDocument
setDocument(doc, did) == doc

\* a lastCall value of setUser: also whether a document was given, and the
\* resolvers argument
SetUserCall(did, doc, given, result) ==
  [ op |-> "setUser", arg |-> did, result |-> result, kid |-> "", dropped |-> 0,
    doc |-> doc, resolvers |-> given ]

\* SetUserDoc keeping the resolvers argument on the Provider
SetUserDoc_KeepsResolvers(doc, given) ==
  /\ identity' = setDocument(doc, doc.id)
  /\ provider_resolvers' = IF Len(given) > 0 THEN given ELSE provider_resolvers
  /\ lastCall' = SetUserCall(doc.id, TRUE, given, "ok")
  /\ UNCHANGED << signing_info_set, resolvers, calls, inflight,
                  added_kids, ever_removed, extractorVars, protocolVars >>

\* setUser(did, doc, resolvers) with a document
SetUserDoc(doc, given) ==
  /\ identity' = setDocument(doc, doc.id)
  /\ lastCall' = SetUserCall(doc.id, TRUE, given, "ok")
  /\ UNCHANGED << signing_info_set, provider_resolvers, resolvers, calls, inflight,
                  added_kids, ever_removed, extractorVars, protocolVars >>

\* setUser(did, undefined, resolvers) up to the await of identity.resolve(did)
SetUserResolve(did, given) ==
  /\ calls[0].pc = "idle"
  /\ LET added == IF Len(given) > 0 THEN addResolvers(resolvers, given) ELSE resolvers
     IN /\ Len(added) <= MaxChain
        /\ resolvers' = ChainForResolve(added)
        /\ calls' = [ calls EXCEPT ![0] = EnterLoop(resolvers', did) ]
  /\ provider_resolvers' = IF Len(given) > 0 THEN given ELSE provider_resolvers
  /\ lastCall' = SetUserCall(did, FALSE, given, "pending")
  /\ UNCHANGED << identity, signing_info_set, inflight, added_kids, ever_removed, extractorVars, protocolVars >>

\* setUser after the await: the resolved document becomes the identity's, or
\* the resolution error is thrown on
SetUserResume ==
  /\ calls[0].pc \in { "returned", "failed" }
  /\ identity' = IF calls[0].pc = "returned" THEN DocOf(calls[0].did) ELSE identity
  /\ calls' = [ calls EXCEPT ![0] = IdleCall ]
  /\ lastCall' = Call("setUserDone", calls[0].did,
                    IF calls[0].pc = "returned" THEN "ok" ELSE DOCUMENT_RESOLUTION_ERROR,
                    "", 0)
  /\ UNCHANGED << signing_info_set, provider_resolvers, resolvers, inflight,
                  added_kids, ever_removed, extractorVars, protocolVars >>

(***************************************************************************)
(* Provider.generateResponse / generateResponseWithVPData.                 *)
(***************************************************************************)
GenerateOps == { "generateResponse", "generateResponseWithVPData" }

\* Math.floor(Math.random() * length): the indices it can yield (from 1 here)
RandomIndex(length) == 1 .. length

\* ResponseGate with the two checks in the other order
ResponseGate_ResolvedFirst(set, doc) ==
  IF isResolved(doc)
  THEN IF Len(set) > 0 THEN "build" ELSE NO_SIGNING_INFO
  ELSE UNRESOLVED_IDENTITY

\* ResponseGate with the two checks merged into one
ResponseGate_MergedCheck(set, doc) ==
  IF Len(set) > 0 /\ isResolved(doc) THEN "build" ELSE UNRESOLVED_IDENTITY

\* what the checks before the response builder decide
ResponseGate(set, doc) ==
  IF Len(set) > 0
  THEN IF isResolved(doc) THEN "build" ELSE UNRESOLVED_IDENTITY
  ELSE NO_SIGNING_INFO

\* generateResponse / generateResponseWithVPData up to the await of the builder
GenerateResponse(op) ==
  LET gate == ResponseGate(signing_info_set, identity)
  IN IF gate = "build"
     THEN \E i \in RandomIndex(Len(signing_info_set)) :
            /\ Len(inflight) < MaxInflight
            /\ inflight' = Append(inflight, [ op |-> op, signing_info |-> signing_info_set[i] ])
            /\ lastCall' = Call(op, "", "build", signing_info_set[i].kid, 0)
            /\ UNCHANGED << identity, signing_info_set, provider_resolvers, resolvers,
                            calls, added_kids, ever_removed, extractorVars, protocolVars >>
     ELSE /\ lastCall' = Call(op, "", gate, "", 0)
          /\ UNCHANGED << identity, signing_info_set, provider_resolvers, resolvers,
                          calls, inflight, added_kids, ever_removed, extractorVars, protocolVars >>

\* ResponseBuilt signing with an entry read from the set when the builder
\* ends (undefined, "", on an empty set)
ResponseBuilt_SelectsLate(i, outcome) ==
  /\ i \in 1 .. Len(inflight)
  /\ inflight' = SubSeq(inflight, 1, i - 1) \o SubSeq(inflight, i + 1, Len(inflight))
  /\ lastCall' = Call("responseBuilt", inflight[i].op, outcome,
                      IF signing_info_set = << >> THEN ""
                      ELSE signing_info_set[Len(signing_info_set)].kid, 0)
  /\ UNCHANGED << identity, signing_info_set, provider_resolvers, resolvers, calls,
                  added_kids, ever_removed, extractorVars, protocolVars >>

\* the awaited DidSiopResponse builder ends: the response, signed with the
\* signing info it was handed, or the builder's error
ResponseBuilt(i, outcome) ==
  /\ i \in 1 .. Len(inflight)
  /\ inflight' = SubSeq(inflight, 1, i - 1) \o SubSeq(inflight, i + 1, Len(inflight))
  /\ lastCall' = Call("responseBuilt", inflight[i].op, outcome, inflight[i].signing_info.kid, 0)
  /\ UNCHANGED << identity, signing_info_set, provider_resolvers, resolvers, calls,
                  added_kids, ever_removed, extractorVars, protocolVars >>

(***************************************************************************)
(* Specifications.                                                         *)
(***************************************************************************)
Init ==
  /\ identity = NoDoc
  /\ signing_info_set = << >>
  /\ provider_resolvers = << >>
  /\ resolvers = << >>
  /\ calls = [ c \in CallIds |-> IdleCall ]
  /\ inflight = << >>
  /\ lastCall = Call("new", "", "ok", "", 0)
  /\ added_kids = {}
  /\ ever_removed = FALSE
  /\ method = NoMethod
  /\ extracted = NotExtracted
  /\ rp = NoRp
  /\ request = NotCalled
  /\ validated = NotCalled
  /\ response = NotCalled
  /\ verdict = NotCalled
  /\ now = 0

\* the kids removeSigningParams is called with
Kids == { "did:a#k1", "did:a#k2", "did:a#k3", "did:b#k2", "did:b#k3", "did:x#none" }

\* the resolvers arguments setUser is called with
GivenResolvers == { << >>, << "ethr" >> }

\* one Provider from construction: its identity set from a document, its
\* signing info and its responses
Next ==
  \/ \E doc \in Docs, given \in GivenResolvers : SetUserDoc(doc, given)
  \/ \E key \in PrivateKeys : AddSigningParams(key)
  \/ \E kid \in Kids : RemoveSigningParams(kid)
  \/ \E op \in GenerateOps : GenerateResponse(op)
  \/ \E i \in 1 .. MaxInflight, outcome \in { "ok", "error" } : ResponseBuilt(i, outcome)

Spec == Init /\ [][Next]_vars

\* one Provider from construction: its identity set from a document or
\* resolved through the chain
NextSetUser ==
  \/ \E doc \in Docs, given \in GivenResolvers : SetUserDoc(doc, given)
  \/ \E did \in Dids, given \in GivenResolvers : SetUserResolve(did, given)
  \/ \E outcome \in Outcomes : ResolverSettles(0, outcome)
  \/ SetUserResume

SpecSetUser == Init /\ [][NextSetUser]_vars

\* the DID the callers of the CombinedDidResolver ask for
CallerDids == { "did:a" }

\* one CombinedDidResolver and its callers
NextResolver ==
  \/ \E r \in UserResolvers : AddResolver(r)
  \/ \E c \in 1 .. MaxCalls, did \in CallerDids : Resolve(c, did)
  \/ \E c \in 1 .. MaxCalls, outcome \in Outcomes : ResolverSettles(c, outcome)
  \/ \E c \in 1 .. MaxCalls : Collect(c)

SpecResolver == Init /\ [][NextResolver]_vars

\* the Provider with every way of setting its identity
NextProvider == Next \/ NextSetUser

SpecProvider == Init /\ [][NextProvider]_vars

(***************************************************************************)
(* uniExtractor.extract on its own: the verification methods it is handed. *)
(***************************************************************************)
\* the encoding fields of a verification method and the value each holds
\* when populated
EncodingFields ==
  { "publicKeyJwk", "publicKeyHex", "publicKeyBase58", "publicKeyBase64",
    "publicKeyPem", "publicKeyPgp", "publicKeyGpg", "ethereumAddress", "address" }

FieldValue(field) ==
  CASE field = "publicKeyJwk" -> "jwk_EC_ES256K_s1"
    [] field = "publicKeyHex" -> "pub_s1"
    [] field = "publicKeyBase58" -> "pub_s4"
    [] field = "publicKeyBase64" -> "b64_pub"
    [] field = "publicKeyPem" -> "pub_s3"
    [] field = "publicKeyPgp" -> "pgp_armored"
    [] field = "publicKeyGpg" -> "gpg_armored"
    [] field = "ethereumAddress" -> "0xaddr_s2"
    [] OTHER -> "addr_generic"

\* the ids and type tags of the methods: absent (""), the tags the
\* extractors are constructed with, the same in lower case, and a tag no
\* extractor knows
MethodIds == { "", "did:m#k1" }

MethodTypes ==
  { "",
    "EcdsaSecp256k1RecoveryMethod2020", "ecdsasecp256k1recoverymethod2020",
    "EcdsaSecp256r1VerificationKey2019", "ecdsasecp256r1verificationkey2019",
    "EcdsaSecp256k1VerificationKey2019", "ecdsasecp256k1verificationkey2019",
    "Secp256k1VerificationKey2018", "secp256k1verificationkey2018",
    "Secp256k1", "secp256k1",
    "RsaVerificationKey2018", "rsaverificationkey2018",
    "GpgVerificationKey2020", "gpgverificationkey2020",
    "Ed25519VerificationKey2018", "ed25519verificationkey2018",
    "ED25519SignatureVerification", "ed25519signatureverification",
    "JwsVerificationKey2020", "jwsverificationkey2020",
    "X25519KeyAgreementKey2019" }

\* the method with the given id and type whose populated encoding fields
\* are those of the set populated
MethodWith(id, type, populated) ==
  LET v(field) == IF field \in populated THEN FieldValue(field) ELSE ""
  IN [ present |-> TRUE, id |-> id, type |-> type,
       publicKeyJwk |-> v("publicKeyJwk"), publicKeyHex |-> v("publicKeyHex"),
       publicKeyBase58 |-> v("publicKeyBase58"),
       publicKeyBase64 |-> v("publicKeyBase64"),
       publicKeyPem |-> v("publicKeyPem"), publicKeyPgp |-> v("publicKeyPgp"),
       publicKeyGpg |-> v("publicKeyGpg"),
       ethereumAddress |-> v("ethereumAddress"), address |-> v("address") ]

Methods ==
  { NoMethod } \cup
  { MethodWith(id, type, populated) :
      id \in MethodIds, type \in MethodTypes, populated \in SUBSET EncodingFields }

\* uniExtractor.extract(method)
Extract ==
  /\ extracted = NotExtracted
  /\ extracted' = UniExtract(method)
  /\ UNCHANGED << identity, signing_info_set, provider_resolvers, resolvers, calls,
                  inflight, lastCall, added_kids, ever_removed, method,
                  protocolVars >>

InitExtract ==
  /\ identity = NoDoc
  /\ signing_info_set = << >>
  /\ provider_resolvers = << >>
  /\ resolvers = << >>
  /\ calls = [ c \in CallIds |-> IdleCall ]
  /\ inflight = << >>
  /\ lastCall = Call("new", "", "ok", "", 0)
  /\ added_kids = {}
  /\ ever_removed = FALSE
  /\ method \in Methods
  /\ extracted = NotExtracted
  /\ rp = NoRp
  /\ request = NotCalled
  /\ validated = NotCalled
  /\ response = NotCalled
  /\ verdict = NotCalled
  /\ now = 0

NextExtract == Extract

SpecExtract == InitExtract /\ [][NextExtract]_vars

(***************************************************************************)
(* One pass of addSigningParams's inner loop body on its own: the          *)
(* CanonicalKeys it is run on and the key strings and formats it tries.    *)
(***************************************************************************)
\* the verification methods whose CanonicalKeys are tried: those of the
\* documents, a recovery method carrying a hex key, and JWS methods with a
\* JWK of the EC family and of a family the switch has no case for
TrialMethods ==
  { DocA.authentication[i] : i \in 1 .. Len(DocA.authentication) } \cup
  { DocB.authentication[i] : i \in 1 .. Len(DocB.authentication) } \cup
  { [ Method("did:t#k1", "EcdsaSecp256k1RecoveryMethod2020")
        EXCEPT !.publicKeyHex = "pub_s2" ],
    [ Method("did:t#k2", "JwsVerificationKey2020")
        EXCEPT !.publicKeyJwk = "jwk_EC_ES256K_s1" ],
    [ Method("did:t#k3", "JwsVerificationKey2020")
        EXCEPT !.publicKeyJwk = "jwk_oct_HS256" ] }

TrialKeys == { k \in { UniExtract(m) : m \in TrialMethods } : k.ok }

\* the key strings the loops try: the private keys after normalisation
TrialPrivateKeys == { NormalisedKey(key) : key \in PrivateKeys }

\* a lastCall value of one pass: the key string and format tried, how the
\* try block ended, and the verifier it constructed
TrialCall(key, format, result, verifier) ==
  [ op |-> "trial", arg |-> key, result |-> result, kid |-> extracted.id,
    dropped |-> 0, format |-> format, verifier |-> verifier ]

\* the inner loop's body for the CanonicalKey at hand
Try(key, format) ==
  /\ extracted.ok
  /\ lastCall' = TrialCall(key, format, Trial(extracted, key, format),
                           Verifier(extracted))
  /\ UNCHANGED << identity, signing_info_set, provider_resolvers, resolvers, calls,
                  inflight, added_kids, ever_removed, extractorVars, protocolVars >>

InitTrial ==
  /\ identity = NoDoc
  /\ signing_info_set = << >>
  /\ provider_resolvers = << >>
  /\ resolvers = << >>
  /\ calls = [ c \in CallIds |-> IdleCall ]
  /\ inflight = << >>
  /\ lastCall = Call("new", "", "ok", "", 0)
  /\ added_kids = {}
  /\ ever_removed = FALSE
  /\ method = NoMethod
  /\ extracted \in TrialKeys
  /\ rp = NoRp
  /\ request = NotCalled
  /\ validated = NotCalled
  /\ response = NotCalled
  /\ verdict = NotCalled
  /\ now = 0

NextTrial ==
  \E key \in TrialPrivateKeys, i \in 1 .. Len(KEY_FORMATS) : Try(key, KEY_FORMATS[i])

SpecTrial == InitTrial /\ [][NextTrial]_vars

(***************************************************************************)
(* Compact tokens: three base64url segments, the header {alg, typ, kid},   *)
(* the payload and the signature.                                          *)
(***************************************************************************)
Base64Url(x) == [ b64 |-> x ]
Base64UrlDecode(segment) == segment.b64

\* the secret a signer imports from a SigningInfo's key
SignerSecret(signing_info) ==
  IF signing_info.format \in KeyFormatsOf(signing_info.key)
  THEN KeySecret(signing_info.key)
  ELSE "garbage"

\* JWT.sign: the compact token of a header and a payload
Sign(header, payload, signing_info) ==
  << Base64Url(header), Base64Url(payload),
     Base64Url([ secret |-> SignerSecret(signing_info), alg |-> signing_info.alg,
                 over |-> << header, payload >> ]) >>

\* the decoded token, or a failure for anything but three segments
Decode(token) ==
  IF Len(token) = 3
  THEN [ ok |-> TRUE, header |-> Base64UrlDecode(token[1]),
         payload |-> Base64UrlDecode(token[2]),
         signature |-> Base64UrlDecode(token[3]) ]
  ELSE [ ok |-> FALSE ]

\* JWT.verify with the verifier of a CanonicalKey's family and algorithm;
\* the recoverable verifier compares the recovered address to the stored one
Verify(jwt, ck) ==
  /\ jwt.signature.over = << jwt.header, jwt.payload >>
  /\ jwt.signature.alg = ck.alg
  /\ IF ck.format = "ETHEREUM_ADDRESS"
     THEN AddressOf(jwt.signature.secret) = ck.publicKey
     ELSE PubSecret(ck.publicKey) = jwt.signature.secret

\* the CanonicalKey of a document with the given kid (a refusal when none)
KeyOfKid(doc, kid) ==
  LET keys == extractAuthenticationKeys(doc)
      at == { i \in 1 .. Len(keys) : keys[i].id = kid }
  IN IF at = {} THEN Thrown(NO_MATCHING_PUBLIC_KEY)
     ELSE keys[CHOOSE i \in at : \A j \in at : i <= j]

(***************************************************************************)
(* RP: set up and generateRequest.                                         *)
(***************************************************************************)
RpRedirectUri == "https://rp.example/home"
RpRegistration == [ id_token_signed_response_alg |-> { "ES256K", "ES256K-R" } ]

\* the values a fresh nonce / state can take
FreshValues == { "fresh_1", "fresh_2" }

\* the default claims of a request
RequestDefaults(did, fresh) ==
  [ iss |-> did, response_type |-> "id_token", scope |-> "openid did_authn",
    client_id |-> RpRedirectUri, registration |-> RpRegistration,
    state |-> fresh, nonce |-> fresh, response_mode |-> "fragment" ]

\* the options generateRequest is called with: none, claims that replace
\* a default, a claim the defaults do not have
NoOptions == [ k \in {} |-> "" ]
RequestOptions ==
  { NoOptions,
    [ state |-> "state_rp", nonce |-> "nonce_rp" ],
    [ claims |-> "presentation_definition" ] }

\* the options merged over the defaults
Merge(options, defaults) ==
  [ k \in DOMAIN defaults \cup DOMAIN options |->
      IF k \in DOMAIN options THEN options[k] ELSE defaults[k] ]

\* the document the relying party's identity holds
RpDoc == IF rp.did = "" THEN NoDoc ELSE DocOf(rp.did)

\* RP.getRP(redirect_uri, did, registration, doc)
RpSetUp(doc) ==
  /\ rp.did = ""
  /\ rp' = [ did |-> doc.id, signing_info_set |-> << >> ]
  /\ UNCHANGED << identity, signing_info_set, provider_resolvers, resolvers, calls,
                  inflight, lastCall, added_kids, ever_removed, extractorVars,
                  request, validated, response, verdict, now >>

\* rp.addSigningParams(key)
RpAddSigningParams(key) ==
  LET r == AddSigningParamsOf[RpDoc, key]
  IN /\ rp.did # ""
     /\ Len(rp.signing_info_set) + Len(r.pushed) <= MaxSigning
     /\ r.pushed # << >>
     /\ rp' = [ rp EXCEPT !.signing_info_set = @ \o r.pushed ]
     /\ UNCHANGED << identity, signing_info_set, provider_resolvers, resolvers,
                     calls, inflight, lastCall, added_kids, ever_removed,
                     extractorVars, request, validated, response, verdict, now >>

\* rp.generateRequest(options)
GenerateRequest(options, fresh) ==
  /\ rp.did # ""
  /\ request.status # "ok"
  /\ IF Len(rp.signing_info_set) = 0
     THEN request' = [ status |-> NO_SIGNING_INFO ]
     ELSE \E i \in RandomIndex(Len(rp.signing_info_set)) :
            LET signing_info == rp.signing_info_set[i]
                header == [ alg |-> signing_info.alg, typ |-> "JWT",
                            kid |-> signing_info.kid ]
                defaults == RequestDefaults(rp.did, fresh)
            IN request' = [ status |-> "ok",
                            token |-> Sign(header, Merge(options, defaults), signing_info),
                            options |-> options, defaults |-> defaults ]
  /\ UNCHANGED << identity, signing_info_set, provider_resolvers, resolvers, calls,
                  inflight, lastCall, added_kids, ever_removed, extractorVars,
                  rp, validated, response, verdict, now >>

(***************************************************************************)
(* Provider.validateRequest.                                               *)
(***************************************************************************)
\* the op_metadata argument: none, one that supports what the request
\* asks for, one that does not
NoMetadata == [ present |-> FALSE, algs |-> {}, scopes |-> {} ]
FullMetadata ==
  [ present |-> TRUE, algs |-> { "ES256K", "ES256K-R", "EdDSA", "RS256" },
    scopes |-> { "openid did_authn" } ]
NarrowMetadata == [ present |-> TRUE, algs |-> { "RS256" }, scopes |-> { "openid did_authn" } ]
OpMetadata == { NoMetadata, FullMetadata, NarrowMetadata }

\* ResolversToValidate handing on the argument whenever it is given
ResolversToValidate_ArgumentAlways(given, own) == given

\* the resolvers validateRequest hands on: the argument, else the
\* Provider's own, else none
ResolversToValidate(given, own) ==
  IF Len(given) > 0 THEN given ELSE IF Len(own) > 0 THEN own ELSE << >>

\* DidSiopRequest.validateRequest behind the resolution of iss: the key of
\* header.kid, the signature, the metadata
RequestVerdict(jwt, doc, op_metadata) ==
  LET ck == KeyOfKid(doc, jwt.header.kid)
  IN IF ~ck.ok THEN NO_MATCHING_PUBLIC_KEY
     ELSE IF ~Verify(jwt, ck) THEN "InvalidSignature"
     ELSE IF /\ op_metadata.present
             /\ ~ ( /\ jwt.payload.registration.id_token_signed_response_alg
                          \subseteq op_metadata.algs
                    /\ jwt.payload.scope \in op_metadata.scopes )
          THEN "UnsupportedMetadata"
     ELSE "ok"

\* provider.validateRequest(request, op_metadata, resolvers) up to the
\* await of the resolution of iss
ValidateRequest(op_metadata, given) ==
  /\ request.status = "ok"
  /\ validated.status = "none"
  /\ calls[1].pc = "idle"
  /\ LET jwt == Decode(request.token)
         toValidate == ResolversToValidate(given, provider_resolvers)
         added == IF Len(toValidate) > 0 THEN addResolvers(resolvers, toValidate)
                  ELSE resolvers
     IN IF ~jwt.ok
        THEN /\ validated' = [ status |-> "MalformedInput", op_metadata |-> op_metadata,
                                given |-> given, passed |-> toValidate ]
             /\ lastCall' = Call("validateRequest", "", "MalformedInput", "", 0)
             /\ UNCHANGED << resolvers, calls >>
        ELSE /\ Len(added) <= MaxChain
             /\ resolvers' = ChainForResolve(added)
             /\ calls' = [ calls EXCEPT ![1] = EnterLoop(resolvers', jwt.payload.iss) ]
             /\ validated' = [ status |-> "resolving", op_metadata |-> op_metadata,
                                given |-> given, passed |-> toValidate ]
             /\ lastCall' = Call("validateRequest", "", "pending", "", 0)
  /\ UNCHANGED << identity, signing_info_set, provider_resolvers, inflight,
                  added_kids, ever_removed, extractorVars, rp, request, response,
                  verdict, now >>

\* provider.validateRequest after the await: the decoded request, or the
\* error thrown
ValidateRequestResume ==
  /\ validated.status = "resolving"
  /\ calls[1].pc \in { "returned", "failed" }
  /\ LET jwt == Decode(request.token)
         result == IF calls[1].pc = "failed" THEN DOCUMENT_RESOLUTION_ERROR
                   ELSE RequestVerdict(jwt, DocOf(calls[1].did), validated.op_metadata)
     IN /\ validated' = IF result = "ok"
                         THEN [ status |-> "ok", op_metadata |-> validated.op_metadata,
                                given |-> validated.given, passed |-> validated.passed,
                                header |-> jwt.header, payload |-> jwt.payload ]
                         ELSE [ status |-> result, op_metadata |-> validated.op_metadata,
                                given |-> validated.given, passed |-> validated.passed ]
        /\ lastCall' = Call("validateRequest", "", result, jwt.header.kid, 0)
  /\ calls' = [ calls EXCEPT ![1] = IdleCall ]
  /\ UNCHANGED << identity, signing_info_set, provider_resolvers, resolvers, inflight,
                  added_kids, ever_removed, extractorVars, rp, request, response,
                  verdict, now >>

(***************************************************************************)
(* Provider.generateResponse with the response it builds.                  *)
(***************************************************************************)
\* the default of generateResponse's expiresIn parameter
DefaultExpiresIn == 1000

\* the expiresIn arguments generateResponse is called with
ExpiresIns == { 0, DefaultExpiresIn }

SelfIssued == "https://self-issued.me"

\* DidSiopResponse.generateResponse: the signed id_token for a request
BuildResponse(requestPayload, signing_info, doc, expiresIn, time) ==
  LET header == [ alg |-> signing_info.alg, typ |-> "JWT", kid |-> signing_info.kid ]
      payload == [ iss |-> SelfIssued, sub |-> doc.id, did |-> doc.id,
                   aud |-> requestPayload.client_id,
                   exp |-> time + expiresIn, iat |-> time,
                   nonce |-> requestPayload.nonce ]
  IN Sign(header, payload, signing_info)

\* Respond calling the builder without its expiresIn argument
Respond_DropsExpiresIn(expiresIn) ==
  /\ validated.status = "ok"
  /\ response.status # "ok"
  /\ LET gate == ResponseGate(signing_info_set, identity)
     IN IF gate = "build"
        THEN \E i \in RandomIndex(Len(signing_info_set)) :
               /\ response' = [ status |-> "ok",
                                token |-> BuildResponse(validated.payload,
                                                        signing_info_set[i], identity,
                                                        DefaultExpiresIn, now),
                                expiresIn |-> expiresIn ]
               /\ lastCall' = Call("generateResponse", "", gate,
                                   signing_info_set[i].kid, 0)
        ELSE /\ response' = [ status |-> gate ]
             /\ lastCall' = Call("generateResponse", "", gate, "", 0)
  /\ UNCHANGED << identity, signing_info_set, provider_resolvers, resolvers, calls,
                  inflight, added_kids, ever_removed, extractorVars, rp, request,
                  validated, verdict, now >>

\* provider.generateResponse(validated.payload, expiresIn)
Respond(expiresIn) ==
  /\ validated.status = "ok"
  /\ response.status # "ok"
  /\ LET gate == ResponseGate(signing_info_set, identity)
     IN IF gate = "build"
        THEN \E i \in RandomIndex(Len(signing_info_set)) :
               /\ response' = [ status |-> "ok",
                                token |-> BuildResponse(validated.payload,
                                                        signing_info_set[i], identity,
                                                        expiresIn, now),
                                expiresIn |-> expiresIn ]
               /\ lastCall' = Call("generateResponse", "", gate,
                                   signing_info_set[i].kid, 0)
        ELSE /\ response' = [ status |-> gate ]
             /\ lastCall' = Call("generateResponse", "", gate, "", 0)
  /\ UNCHANGED << identity, signing_info_set, provider_resolvers, resolvers, calls,
                  inflight, added_kids, ever_removed, extractorVars, rp, request,
                  validated, verdict, now >>

(***************************************************************************)
(* RP.validateResponse.                                                    *)
(***************************************************************************)
\* the checkParams validateResponse is called with (no nonce, no validBefore)
CheckParams ==
  [ redirect_uri : { RpRedirectUri, "https://other.example/home" },
    isExpirable : BOOLEAN ]

\* DidSiopResponse.validateResponse behind the resolution of the
\* Provider's DID: the outcome and whether it is thrown or returned
ResponseVerdict(jwt, doc, checkParams, time) ==
  LET ck == KeyOfKid(doc, jwt.header.kid)
  IN IF ~ck.ok THEN [ status |-> NO_MATCHING_PUBLIC_KEY, how |-> "thrown" ]
     ELSE IF ~Verify(jwt, ck) THEN [ status |-> "InvalidSignature", how |-> "thrown" ]
     ELSE IF jwt.payload.aud # checkParams.redirect_uri
          THEN [ status |-> "AudienceMismatch", how |-> "error value" ]
     ELSE IF checkParams.isExpirable /\ ~(jwt.payload.exp > time)
          THEN [ status |-> "Expired", how |-> "error value" ]
     ELSE [ status |-> "ok", how |-> "returned",
            header |-> jwt.header, payload |-> jwt.payload ]

\* rp.validateResponse(response, checkParams) up to the await of the
\* resolution of the Provider's DID
ValidateResponse(checkParams) ==
  /\ response.status = "ok"
  /\ verdict.status = "none"
  /\ calls[2].pc = "idle"
  /\ LET jwt == Decode(response.token)
     IN IF ~jwt.ok
        THEN /\ verdict' = [ status |-> "MalformedInput", how |-> "thrown",
                             checkParams |-> checkParams, at |-> now ]
             /\ UNCHANGED << resolvers, calls >>
        ELSE /\ resolvers' = ChainForResolve(resolvers)
             /\ calls' = [ calls EXCEPT ![2] = EnterLoop(resolvers', jwt.payload.did) ]
             /\ verdict' = [ status |-> "resolving", checkParams |-> checkParams ]
  /\ UNCHANGED << identity, signing_info_set, provider_resolvers, inflight, lastCall,
                  added_kids, ever_removed, extractorVars, rp, request, validated,
                  response, now >>

\* rp.validateResponse after the await
ValidateResponseResume ==
  /\ verdict.status = "resolving"
  /\ calls[2].pc \in { "returned", "failed" }
  /\ LET result == IF calls[2].pc = "failed"
                   THEN [ status |-> DOCUMENT_RESOLUTION_ERROR, how |-> "thrown" ]
                   ELSE ResponseVerdict(Decode(response.token), DocOf(calls[2].did),
                                        verdict.checkParams, now)
     IN verdict' = [ checkParams |-> verdict.checkParams, at |-> now ] @@ result
  /\ calls' = [ calls EXCEPT ![2] = IdleCall ]
  /\ UNCHANGED << identity, signing_info_set, provider_resolvers, resolvers, inflight,
                  lastCall, added_kids, ever_removed, extractorVars, rp, request,
                  validated, response, now >>

\* the time between two readings of Date.now() the model tells apart
TickLength == DefaultExpiresIn \div 2

\* time passes while a response is under way
Tick ==
  /\ response.status = "ok"
  /\ verdict.status \in { "none", "resolving" }
  /\ now < MaxTicks * TickLength
  /\ now' = now + TickLength
  /\ UNCHANGED << identity, signing_info_set, provider_resolvers, resolvers, calls,
                  inflight, lastCall, added_kids, ever_removed, extractorVars, rp,
                  request, validated, response, verdict >>

\* the document and the keys the parties of the exchange are set up with
ProtocolDocs == { DocA }
ProtocolKeys == { "hex_s1", "hex_s2" }

\* the key is not yet among the signing info of the set
NewKey(set, key) == \A i \in 1 .. Len(set) : set[i].key # key

\* an RP and a Provider are set up, each key added once, then run one
\* exchange: request, validation, response, validation
NextProtocol ==
  \/ \E doc \in ProtocolDocs : request.status = "none" /\ SetUserDoc(doc, << >>)
  \/ \E key \in ProtocolKeys :
        /\ request.status = "none"
        /\ NewKey(signing_info_set, key)
        /\ AddSigningParams(key)
  \/ \E doc \in ProtocolDocs : RpSetUp(doc)
  \/ \E key \in ProtocolKeys :
        /\ request.status = "none"
        /\ NewKey(rp.signing_info_set, key)
        /\ RpAddSigningParams(key)
  \/ \E options \in RequestOptions, fresh \in FreshValues : GenerateRequest(options, fresh)
  \/ \E op_metadata \in OpMetadata, given \in GivenResolvers :
        ValidateRequest(op_metadata, given)
  \/ \E outcome \in Outcomes : ResolverSettles(1, outcome)
  \/ ValidateRequestResume
  \/ \E expiresIn \in ExpiresIns : Respond(expiresIn)
  \/ \E checkParams \in CheckParams : ValidateResponse(checkParams)
  \/ \E outcome \in Outcomes : ResolverSettles(2, outcome)
  \/ ValidateResponseResume
  \/ Tick

SpecProtocol == Init /\ [][NextProtocol]_vars

\* the checks of the generate calls on their own: every signing-info set
\* of the entries addSigningParams pushes, with every identity, resolved or
\* not
GateEntries ==
  { r.pushed[1] :
      r \in { a \in { AddSigningParamsOf[doc, key] : doc \in Docs, key \in PrivateKeys } :
                a.result = "ok" } }

GateSets ==
  UNION { [ 1 .. n -> GateEntries ] : n \in 0 .. MaxSigning }

InitGate ==
  /\ identity \in Docs \cup { NoDoc }
  /\ signing_info_set \in GateSets
  /\ provider_resolvers = << >>
  /\ resolvers = << >>
  /\ calls = [ c \in CallIds |-> IdleCall ]
  /\ inflight = << >>
  /\ lastCall = Call("new", "", "ok", "", 0)
  /\ added_kids = { signing_info_set[i].kid : i \in 1 .. Len(signing_info_set) }
  /\ ever_removed = FALSE
  /\ method = NoMethod
  /\ extracted = NotExtracted
  /\ rp = NoRp
  /\ request = NotCalled
  /\ validated = NotCalled
  /\ response = NotCalled
  /\ verdict = NotCalled
  /\ now = 0

NextGate ==
  \/ \E op \in GenerateOps : GenerateResponse(op)
  \/ \E i \in 1 .. MaxInflight, outcome \in { "ok", "error" } : ResponseBuilt(i, outcome)

SpecGate == InitGate /\ [][NextGate]_vars

\* the resolvers arguments validateRequest is called with
RequestResolvers == { << >>, << "key" >> }

\* a Provider whose identity is set from a document or resolved, with or
\* without resolvers of its own, validates the request of an RP
NextValidate ==
  \/ \E doc \in ProtocolDocs, given \in GivenResolvers :
        rp.did = "" /\ SetUserDoc(doc, given)
  \/ \E doc \in ProtocolDocs, given \in GivenResolvers :
        rp.did = "" /\ SetUserResolve(doc.id, given)
  \/ \E outcome \in Outcomes : ResolverSettles(0, outcome)
  \/ SetUserResume
  \/ \E doc \in ProtocolDocs : calls[0].pc = "idle" /\ RpSetUp(doc)
  \/ \E key \in ProtocolKeys :
        /\ request.status = "none"
        /\ NewKey(rp.signing_info_set, key)
        /\ RpAddSigningParams(key)
  \/ \E fresh \in FreshValues : GenerateRequest(NoOptions, fresh)
  \/ \E op_metadata \in OpMetadata, given \in RequestResolvers :
        ValidateRequest(op_metadata, given)
  \/ \E outcome \in Outcomes : ResolverSettles(1, outcome)
  \/ ValidateRequestResume

SpecValidate == Init /\ [][NextValidate]_vars


(***************************************************************************)
(* Properties of the Provider.                                             *)
(***************************************************************************)
\* the private key encoded by rawKey is the private half of the CanonicalKey ck
PairsWith(rawKey, ck) ==
  LET secret == KeySecret(NormalisedKey(rawKey))
  IN /\ ck.ok
     /\ ck.kty = SecretKty(secret)
     /\ KeyFormatsOf(NormalisedKey(rawKey)) # {}
     /\ IF ck.format = "ETHEREUM_ADDRESS"
        THEN ck.publicKey = AddressOf(secret)
        ELSE PubSecret(ck.publicKey) = secret

\* the authentication methods of doc whose public key rawKey pairs with
MatchingMethods(doc, rawKey) ==
  { i \in 1 .. Len(doc.authentication) :
      PairsWith(rawKey, UniExtract(doc.authentication[i])) }

\* the last entry of a non-empty sequence
Last(seq) == seq[Len(seq)]

\* C1: when the identity is resolved and the private key pairs with the
\* public key of at least one authentication method of its document,
\* addSigningParams returns the id of such a method, and the SigningInfo it
\* records carries that kid and the algorithm of the CanonicalKey extracted
\* from the document for that method.
C1_AddReturnsMatchingKid ==
  ( /\ lastCall.op = "addSigningParams"
    /\ isResolved(identity)
    /\ MatchingMethods(identity, lastCall.arg) # {} )
  => /\ lastCall.result = "ok"
     /\ signing_info_set # << >>
     /\ \E i \in MatchingMethods(identity, lastCall.arg) :
          /\ identity.authentication[i].id = lastCall.kid
          /\ Last(signing_info_set).kid = lastCall.kid
          /\ Last(signing_info_set).alg = UniExtract(identity.authentication[i]).alg

\* C1 witness: a key that pairs with the second method only was added; the
\* entry carries that method's kid and its ES256K-R algorithm.
C1_Witness ==
  /\ lastCall.op = "addSigningParams"
  /\ lastCall.arg = "hex_s2"
  /\ lastCall.kid = "did:a#k2"
  /\ Last(signing_info_set).alg = "ES256K-R"

\* C2: when the private key pairs with no authentication key of the
\* resolved document, addSigningParams fails with NoMatchingPublicKey and
\* leaves the signing-info set as it was.
C2_NoMatchFailsAndKeepsSet ==
  [][ ( /\ lastCall'.op = "addSigningParams"
        /\ isResolved(identity)
        /\ MatchingMethods(identity, lastCall'.arg) = {} )
      => /\ lastCall'.result = NO_PUBLIC_KEY
         /\ signing_info_set' = signing_info_set ]_vars

\* C2 witness: a key that pairs with nothing was refused while the set
\* held an entry.
C2_Witness ==
  /\ lastCall.op = "addSigningParams"
  /\ lastCall.result = NO_PUBLIC_KEY
  /\ isResolved(identity)
  /\ MatchingMethods(identity, lastCall.arg) = {}
  /\ signing_info_set # << >>

C4_AllRemovedThenNoSigningInfo ==
  (lastCall.op = "generateResponse" /\ added_kids = {})
  => lastCall.result = NO_SIGNING_INFO

\* C4 witness: generateResponse was rejected with NoSigningInfo after a kid
\* had been added and removed.
C4_Witness ==
  /\ lastCall.op = "generateResponse"
  /\ lastCall.result = NO_SIGNING_INFO
  /\ ever_removed
  /\ added_kids = {}

\* the entries of set whose kid is not kid, in their order
RECURSIVE Others(_, _)
Others(set, kid) ==
  IF set = << >> THEN << >>
  ELSE IF Head(set).kid = kid THEN Others(Tail(set), kid)
  ELSE << Head(set) >> \o Others(Tail(set), kid)

\* C5: removeSigningParams(kid) leaves no entry with that kid, keeps every
\* other entry in the same relative order, and changes nothing (and throws
\* nothing) when no entry has that kid.
C5_RemoveFrame ==
  [][ lastCall'.op = "removeSigningParams"
      => /\ \A i \in 1 .. Len(signing_info_set') :
              signing_info_set'[i].kid # lastCall'.arg
         /\ signing_info_set' = Others(signing_info_set, lastCall'.arg)
         /\ (\A i \in 1 .. Len(signing_info_set) :
                signing_info_set[i].kid # lastCall'.arg)
              => signing_info_set' = signing_info_set
         /\ lastCall'.result = "ok" ]_vars

\* C5 witness: a removal dropped an entry and kept another.
C5_Witness ==
  /\ lastCall.op = "removeSigningParams"
  /\ lastCall.dropped > 0
  /\ signing_info_set # << >>

\* C6: the signing-info set holds at most one entry per kid.
C6_OneEntryPerKid ==
  \A i, j \in 1 .. Len(signing_info_set) :
    signing_info_set[i].kid = signing_info_set[j].kid => i = j

Fruitless == { "throw", "empty" }

\* C8: a resolve call fails with DocumentResolutionError only when every
\* resolver of the chain has been invoked for the call and each threw or
\* returned an empty result.
C8_FailsOnlyWhenChainExhausted ==
  [][ \A c \in CallIds :
        (calls[c].pc # "failed" /\ calls'[c].pc = "failed")
        => /\ Len(calls'[c].tried) = Len(resolvers')
           /\ \A i \in 1 .. Len(resolvers') :
                /\ calls'[c].tried[i].resolver = resolvers'[i]
                /\ calls'[c].tried[i].outcome \in Fruitless ]_vars

\* C8 witness: a call failed after one resolver threw and another returned
\* nothing.
C8_Witness ==
  \E c \in CallIds :
    /\ calls[c].pc = "failed"
    /\ Len(calls[c].tried) >= 2
    /\ calls[c].tried[1].outcome = "throw"
    /\ calls[c].tried[2].outcome = "empty"

\* the resolvers a call has invoked are the chain's first ones in chain
\* order, every one before the last was fruitless, and a returned call
\* returns the document of the last one invoked, which produced one
InOrderFirstWins(call, rs) ==
  call.pc # "idle"
  => /\ Len(call.tried) <= Len(rs)
     /\ call.idx = Len(call.tried)
     /\ \A i \in 1 .. Len(call.tried) : call.tried[i].resolver = rs[i]
     /\ \A i \in 1 .. Len(call.tried) - 1 : call.tried[i].outcome \in Fruitless
     /\ call.pc = "awaiting" => Last(call.tried).outcome = "pending"
     /\ call.pc = "returned"
          => /\ call.from = Len(call.tried)
             /\ Last(call.tried).outcome = "doc"

\* a fruitless resolver with a successor in the chain hands over to it
HandsOver(call, after, rs) ==
  ( /\ call.pc = "awaiting"
    /\ after # call
    /\ after.tried[call.idx].outcome \in Fruitless
    /\ call.idx < Len(rs) )
  => /\ after.pc = "awaiting"
     /\ after.idx = call.idx + 1
     /\ after.tried[after.idx] = Invoke(rs[after.idx])

\* C9: resolve invokes the chain's resolvers in list order; the result is
\* the document of the first resolver that returns a non-empty one and no
\* resolver after it is invoked; a resolver that throws or returns nothing
\* passes control to the next resolver.
C9_InOrderFirstDocumentWins ==
  [][ \A c \in CallIds :
        /\ InOrderFirstWins(calls'[c], resolvers')
        /\ HandsOver(calls[c], calls'[c], resolvers) ]_vars

\* C9 witness: a call returned the first resolver's document and left the
\* chain's second resolver alone.
C9_Witness ==
  \E c \in CallIds :
    /\ calls[c].pc = "returned"
    /\ calls[c].from = 1
    /\ Len(calls[c].tried) = 1
    /\ Len(resolvers) = 2

\* C10: a resolve call on an empty chain appends the universal resolver and
\* tries it; a resolve call on a non-empty chain appends nothing.
C10_FallbackOnlyWhenEmpty ==
  [][ \A c \in CallIds :
        (calls[c].pc = "idle" /\ calls'[c].pc # "idle")
        => IF resolvers = << >>
           THEN /\ resolvers' = << UniResolver >>
                /\ calls'[c].tried = << Invoke(UniResolver) >>
           ELSE resolvers' = resolvers ]_vars

\* C10 witness: a call on the empty chain awaits the universal resolver it
\* appended.
C10_Witness ==
  \E c \in CallIds :
    /\ calls[c].pc = "awaiting"
    /\ calls[c].tried = << Invoke(UniResolver) >>
    /\ resolvers = << UniResolver >>

\* C11: no operation mutates process-wide state: a resolve made through
\* the module's combinedDidResolver by one caller, from its start to its
\* end, leaves the resolver chain every other caller resolves through as it
\* was.
C11_ResolveLeavesSharedChainAlone ==
  [][ calls' # calls => resolvers' = resolvers ]_vars


(***************************************************************************)
(* Properties of the key extraction chain.                                 *)
(***************************************************************************)
\* the method handed to extract has an id and a type
Identified == method.present /\ method.id # "" /\ method.type # ""

\* the type tags of each handler, as written and in lower case
RecoveryTags ==
  { "EcdsaSecp256k1RecoveryMethod2020", "ecdsasecp256k1recoverymethod2020" }
Secp256r1Tags ==
  { "EcdsaSecp256r1VerificationKey2019", "ecdsasecp256r1verificationkey2019" }
Secp256k1Tags ==
  { "EcdsaSecp256k1VerificationKey2019", "ecdsasecp256k1verificationkey2019",
    "Secp256k1VerificationKey2018", "secp256k1verificationkey2018",
    "Secp256k1", "secp256k1" }
RsaTags == { "RsaVerificationKey2018", "rsaverificationkey2018" }
GpgTags == { "GpgVerificationKey2020", "gpgverificationkey2020" }
Ed25519Tags ==
  { "Ed25519VerificationKey2018", "ed25519verificationkey2018",
    "ED25519SignatureVerification", "ed25519signatureverification" }
JwsTags == { "JwsVerificationKey2020", "jwsverificationkey2020" }

\* the tags of handlers 2 to 6, and of every handler
Handlers2to6Tags ==
  Secp256r1Tags \cup Secp256k1Tags \cup RsaTags \cup GpgTags \cup Ed25519Tags
KnownTags == RecoveryTags \cup Handlers2to6Tags \cup JwsTags

\* C12: a method with an id, a type and a populated Ethereum-address field
\* is extracted as an EC key with algorithm ES256K-R, whatever its type tag
\* and whatever other encoding fields are populated.
C12_EthereumAddressYieldsES256KR ==
  (extracted # NotExtracted /\ Identified /\ method.ethereumAddress # "")
  => /\ extracted.ok
     /\ extracted.kty = "EC"
     /\ extracted.alg = "ES256K-R"

\* C13: extract fails with NoMatchingPublicKey when the method is absent
\* or lacks an id or a type, whatever encoding fields it carries, and with
\* UnsupportedPublicKeyMethod when it has both, its type tag is none of
\* the known names and it has no Ethereum-address field.
C13_ExtractRefusals ==
  extracted # NotExtracted
  => /\ ~Identified
          => (~extracted.ok /\ extracted.err = NO_MATCHING_PUBLIC_KEY)
     /\ (Identified /\ method.type \notin KnownTags /\ method.ethereumAddress = "")
          => (~extracted.ok /\ extracted.err = UNSUPPORTED_PUBLIC_KEY_METHOD)

\* C13 witness: a method of an unknown type that carries a base58 key was
\* refused with UnsupportedPublicKeyMethod.
C13_Witness ==
  /\ Identified
  /\ method.type = "X25519KeyAgreementKey2019"
  /\ method.publicKeyBase58 # ""
  /\ extracted.err = UNSUPPORTED_PUBLIC_KEY_METHOD

\* the key family and the algorithm the handler of a type tag stands for
FamilyOfTag(type) ==
  CASE type \in RsaTags \cup GpgTags -> "RSA"
    [] type \in Ed25519Tags -> "OKP"
    [] OTHER -> "EC"
AlgorithmOfTag(type) ==
  CASE type \in Secp256r1Tags -> "ES256"
    [] type \in Secp256k1Tags -> "ES256K"
    [] type \in RsaTags \cup GpgTags -> "RS256"
    [] type \in Ed25519Tags -> "EdDSA"
    [] OTHER -> "ES256K-R"

\* C14: for a method without an Ethereum-address field the type tag,
\* compared without regard to case, selects the handler: a key that is
\* extracted has the family and algorithm of that handler (and PEM format
\* for the GPG handler) and the method's id, and a refusal is that
\* handler's refusal.
C14_TagSelectsHandler ==
  ( /\ extracted # NotExtracted
    /\ Identified
    /\ method.ethereumAddress = ""
    /\ method.type \in RecoveryTags \cup Handlers2to6Tags )
  => IF extracted.ok
     THEN /\ extracted.kty = FamilyOfTag(method.type)
          /\ extracted.alg = AlgorithmOfTag(method.type)
          /\ extracted.id = method.id
          /\ method.type \in GpgTags => extracted.format = "PKCS8_PEM"
     ELSE extracted.err = IF method.type \in GpgTags
                          THEN UNSUPPORTED_PUBLIC_KEY_METHOD
                          ELSE UNSUPPORTED_KEY_FORMAT

\* C14 witness: a method whose tag is the RSA handler's in lower case was
\* extracted as an RSA / RS256 key.
C14_Witness ==
  /\ method.type = "rsaverificationkey2018"
  /\ method.ethereumAddress = ""
  /\ extracted.ok
  /\ extracted.kty = "RSA"
  /\ extracted.alg = "RS256"
  /\ extracted.id = "did:m#k1"

\* the populated encoding field of highest priority, as format and value
\* (the method has one)
HighestPriority(m) ==
  IF m.publicKeyJwk # "" THEN << "JWK", m.publicKeyJwk >>
  ELSE IF m.publicKeyHex # "" THEN << "HEX", m.publicKeyHex >>
  ELSE IF m.publicKeyBase58 # "" THEN << "BASE58", m.publicKeyBase58 >>
  ELSE IF m.publicKeyBase64 # "" THEN << "BASE64", m.publicKeyBase64 >>
  ELSE IF m.publicKeyPem # "" THEN << "PKCS8_PEM", m.publicKeyPem >>
  ELSE IF m.publicKeyPgp # "" THEN << "PKCS8_PEM", m.publicKeyPgp >>
  ELSE << "ADDRESS", m.address >>

\* the method carries one of the encodings a handler 2 to 6 method can
HasEncoding(m) ==
  \/ m.publicKeyJwk # "" \/ m.publicKeyHex # "" \/ m.publicKeyBase58 # ""
  \/ m.publicKeyBase64 # "" \/ m.publicKeyPem # "" \/ m.publicKeyPgp # ""
  \/ m.address # ""

\* C15: for a method matched by one of handlers 2 to 6 the extracted
\* publicKey is the value of the populated encoding field of highest
\* priority (JWK, hex, base58, base64, PEM, PGP-PEM, generic address) and
\* the format names that encoding; a method whose only encoding is the
\* PGP-PEM field yields that PGP-PEM value.
C15_HighestPriorityEncoding ==
  ( /\ extracted # NotExtracted
    /\ Identified
    /\ method.ethereumAddress = ""
    /\ method.type \in Handlers2to6Tags
    /\ HasEncoding(method) )
  => /\ extracted.ok
     /\ extracted.format = HighestPriority(method)[1]
     /\ extracted.publicKey = HighestPriority(method)[2]

\* the method carries no encoding field at all
NoEncoding(m) ==
  /\ ~HasEncoding(m)
  /\ m.publicKeyGpg = ""
  /\ m.ethereumAddress = ""

\* C16 as stated: a method whose type is that of one of handlers 2 to 6
\* and that carries no encoding field is refused with UnsupportedKeyFormat.
C16_AsStated ==
  ( /\ extracted # NotExtracted
    /\ Identified
    /\ method.type \in Handlers2to6Tags
    /\ NoEncoding(method) )
  => (~extracted.ok /\ extracted.err = UNSUPPORTED_KEY_FORMAT)

\* C16 amended: such a method is refused with UnsupportedKeyFormat when its
\* type is that of the secp256r1, secp256k1, RSA or Ed25519 handler, and
\* with UnsupportedPublicKeyMethod when it is that of the GPG handler.
C16_NoEncodingRefused ==
  ( /\ extracted # NotExtracted
    /\ Identified
    /\ method.type \in Handlers2to6Tags
    /\ NoEncoding(method) )
  => /\ ~extracted.ok
     /\ extracted.err = IF method.type \in GpgTags
                         THEN UNSUPPORTED_PUBLIC_KEY_METHOD
                         ELSE UNSUPPORTED_KEY_FORMAT

\* C16 witness: a method of the Ed25519 handler's type without any
\* encoding field was refused with UnsupportedKeyFormat.
C16_Witness ==
  /\ Identified
  /\ method.type = "Ed25519VerificationKey2018"
  /\ NoEncoding(method)
  /\ extracted.err = UNSUPPORTED_KEY_FORMAT


(***************************************************************************)
(* Properties of the request / response exchange.                          *)
(***************************************************************************)
\* validateRequest has ended and the resolution of iss gave a document
RequestJudged ==
  validated.status \notin { "none", "resolving", DOCUMENT_RESOLUTION_ERROR }

\* validateResponse has ended and the resolution of the Provider's DID gave
\* a document
ResponseJudged ==
  verdict.status \notin { "none", "resolving", DOCUMENT_RESOLUTION_ERROR }

C19_NoRetry ==
  [][ /\ \A c \in CallIds :
           /\ calls'[c].pc # "idle"
                => /\ Len(calls'[c].tried) <= Len(resolvers')
                   /\ \A i \in 1 .. Len(calls'[c].tried) :
                        calls'[c].tried[i].resolver = resolvers'[i]
           /\ calls[c].pc = "failed" => calls'[c] \in { calls[c], IdleCall }
      /\ (calls[0].pc = "failed" /\ calls'[0] # calls[0])
           => /\ lastCall'.op = "setUserDone"
              /\ lastCall'.result = DOCUMENT_RESOLUTION_ERROR
              /\ identity' = identity
              /\ resolvers' = resolvers ]_vars

\* C19 witness: setUser ended with DocumentResolutionError after a chain of
\* two resolvers was exhausted; no resolution is under way and the identity
\* is unresolved.
C19_Witness ==
  /\ lastCall.op = "setUserDone"
  /\ lastCall.result = DOCUMENT_RESOLUTION_ERROR
  /\ calls[0] = IdleCall
  /\ Len(resolvers) = 2
  /\ ~isResolved(identity)

\* C20: setUser with a document sets the identity from the document,
\* starts no resolution, adds nothing to the resolver chain and leaves the
\* Provider's resolvers as they were, whatever the resolvers argument;
\* setUser without a document starts the resolution of the DID and leaves
\* the identity alone until it ends, a non-empty resolvers argument being
\* added to the chain and stored on the Provider, an empty one neither.
C20_SetUserBranches ==
  [][ (lastCall' # lastCall /\ lastCall'.op = "setUser")
      => IF lastCall'.doc
         THEN /\ identity' = DocOf(lastCall'.arg)
              /\ calls' = calls
              /\ resolvers' = resolvers
              /\ provider_resolvers' = provider_resolvers
              /\ lastCall'.result = "ok"
         ELSE /\ calls[0].pc = "idle"
              /\ calls'[0].pc # "idle"
              /\ calls'[0].did = lastCall'.arg
              /\ identity' = identity
              /\ IF lastCall'.resolvers # << >>
                 THEN /\ resolvers' = resolvers \o lastCall'.resolvers
                      /\ provider_resolvers' = lastCall'.resolvers
                 ELSE /\ provider_resolvers' = provider_resolvers
                      /\ resolvers' = IF resolvers = << >> THEN << UniResolver >>
                                      ELSE resolvers ]_vars

\* C20 witness: setUser was given a document and a resolver: the identity
\* is the document, no resolution runs, and neither the chain nor the
\* Provider holds the resolver.
C20_Witness ==
  /\ lastCall.op = "setUser"
  /\ lastCall.doc
  /\ lastCall.resolvers = << "ethr" >>
  /\ identity = DocA
  /\ calls[0].pc = "idle"
  /\ resolvers = << >>
  /\ provider_resolvers = << >>


(***************************************************************************)
(* Properties of the trial search of Provider.addSigningParams.            *)
(***************************************************************************)
\* the (authentication method, key format) combinations of doc under which
\* rawKey pairs: the method's public key is the key's public half and the
\* key string decodes under the format
Combinations(doc, rawKey) ==
  { c \in (1 .. Len(doc.authentication)) \X (1 .. Len(KEY_FORMATS)) :
      /\ c[1] \in MatchingMethods(doc, rawKey)
      /\ KEY_FORMATS[c[2]] \in KeyFormatsOf(NormalisedKey(rawKey)) }

\* the first of a set of combinations, methods in document order before
\* formats in declaration order
FirstCombination(cs) ==
  CHOOSE c \in cs :
    \A d \in cs : c[1] < d[1] \/ (c[1] = d[1] /\ c[2] <= d[2])

\* C21: when the private key pairs under more than one (authentication key,
\* key format) combination, addSigningParams appends exactly one entry to
\* the signing-info set, the one of the first combination with methods in
\* document order and formats in declaration order, and returns its kid;
\* the entries already there stay.
C21_FirstCombinationOnly ==
  [][ ( /\ lastCall'.op = "addSigningParams"
        /\ isResolved(identity)
        /\ Cardinality(Combinations(identity, lastCall'.arg)) > 1 )
      => LET c == FirstCombination(Combinations(identity, lastCall'.arg))
         IN /\ Len(signing_info_set') = Len(signing_info_set) + 1
            /\ SubSeq(signing_info_set', 1, Len(signing_info_set)) = signing_info_set
            /\ Last(signing_info_set').kid = identity.authentication[c[1]].id
            /\ Last(signing_info_set').format = KEY_FORMATS[c[2]]
            /\ lastCall'.kid = identity.authentication[c[1]].id ]_vars

\* C21 witness: a key that pairs with the second and the fourth method of
\* the document was added to an empty set: the set holds the entry of the
\* second method and no other.
C21_Witness ==
  /\ lastCall.op = "addSigningParams"
  /\ lastCall.arg = "hex_s2"
  /\ identity = DocA
  /\ MatchingMethods(identity, lastCall.arg) = { 2, 4 }
  /\ Len(signing_info_set) = 1
  /\ signing_info_set[1].kid = "did:a#k2"

\* the secret a key string decodes to under a format as a key of family
\* kty ("" when it does not decode as such a key)
Decoded(key, kty, format) ==
  IF SecretKty(KeySecret(key)) = kty /\ format \in KeyFormatsOf(key)
  THEN KeySecret(key) ELSE ""

\* C22: the verifier (and signer) of a trial is that of the CanonicalKey's
\* family; the recoverable EC variant is used exactly when the family is EC
\* and the CanonicalKey's format is ETHEREUM_ADDRESS, and then the trial
\* succeeds exactly when the address of the decoded private key is the
\* stored address; an EC key in any other format gets the ordinary EC
\* verifier, whatever its algorithm, and succeeds only on the public half
\* of the decoded key; a key of another family is skipped: nothing is
\* constructed, nothing thrown, nothing matched.
C22_VerifierByFamilyAndFormat ==
  lastCall.op = "trial"
  => LET secret == Decoded(lastCall.arg, extracted.kty, lastCall.format)
     IN /\ lastCall.verifier = "ES256KRecoverableVerifier"
             <=> (extracted.kty = "EC" /\ extracted.format = "ETHEREUM_ADDRESS")
        /\ (extracted.kty = "EC" /\ extracted.format # "ETHEREUM_ADDRESS")
             => lastCall.verifier = "ECVerifier"
        /\ extracted.kty = "RSA" => lastCall.verifier = "RSAVerifier"
        /\ extracted.kty = "OKP" => lastCall.verifier = "OKPVerifier"
        /\ extracted.kty \notin { "RSA", "EC", "OKP" }
             => lastCall.verifier = "none" /\ lastCall.result = "skip"
        /\ extracted.kty \in { "RSA", "EC", "OKP" } => lastCall.result # "skip"
        /\ lastCall.verifier = "ES256KRecoverableVerifier"
             => (lastCall.result = "true"
                   <=> (secret # "" /\ AddressOf(secret) = extracted.publicKey))
        /\ lastCall.verifier \in { "RSAVerifier", "ECVerifier", "OKPVerifier" }
             => (lastCall.result = "true"
                   <=> (secret # "" /\ PubSecret(extracted.publicKey) = secret))

\* C22 witness: an ES256K-R key in HEX format was tried with the ordinary
\* EC verifier and paired with its private key.
C22_Witness ==
  /\ lastCall.op = "trial"
  /\ extracted.alg = "ES256K-R"
  /\ extracted.format = "HEX"
  /\ lastCall.verifier = "ECVerifier"
  /\ lastCall.result = "true"

\* a key of an address format was tried with the recoverable verifier and
\* paired; a key of a family without a case was skipped
C22_WitnessRecoverable ==
  /\ lastCall.op = "trial"
  /\ lastCall.verifier = "ES256KRecoverableVerifier"
  /\ lastCall.result = "true"

C22_WitnessSkipped ==
  /\ lastCall.op = "trial"
  /\ extracted.kty = "oct"
  /\ lastCall.result = "skip"

\* the passes of the loops over doc's keys whose try block throws, and
\* those whose key and format rawKey pairs under
ThrowingPasses(doc, rawKey) ==
  LET ks == extractAuthenticationKeys(doc)
  IN { p \in 1 .. Len(ks) * NumFormats :
         Trial(ks[KeyAt(p)], NormalisedKey(rawKey), KEY_FORMATS[FormatAt(p)]) = "throw" }

PairingPasses(doc, rawKey) ==
  LET ks == extractAuthenticationKeys(doc)
  IN { p \in 1 .. Len(ks) * NumFormats :
         /\ PairsWith(rawKey, ks[KeyAt(p)])
         /\ KEY_FORMATS[FormatAt(p)] \in KeyFormatsOf(NormalisedKey(rawKey)) }

\* C23: a try block that throws neither ends the search of addSigningParams
\* nor reaches the caller: on a resolved identity the call returns a kid or
\* throws NoMatchingPublicKey and nothing else; it returns the kid of the
\* first pairing pass however many passes threw before it; and it throws
\* NoMatchingPublicKey, leaving the set alone, only when no pass pairs.
C23_ThrowsAreSwallowed ==
  [][ (lastCall'.op = "addSigningParams" /\ isResolved(identity))
      => LET ks == extractAuthenticationKeys(identity)
             pairing == PairingPasses(identity, lastCall'.arg)
         IN /\ lastCall'.result \in { "ok", NO_PUBLIC_KEY }
            /\ pairing # {}
                 => /\ lastCall'.result = "ok"
                    /\ \E p \in pairing :
                         /\ \A q \in pairing : p <= q
                         /\ lastCall'.kid = ks[KeyAt(p)].id
            /\ pairing = {}
                 => /\ lastCall'.result = NO_PUBLIC_KEY
                    /\ signing_info_set' = signing_info_set ]_vars

\* C23 witness: a key was added whose pairing pass, on the third key of the
\* document, came after passes that threw on the first.
C23_Witness ==
  /\ lastCall.op = "addSigningParams"
  /\ lastCall.result = "ok"
  /\ lastCall.kid = "did:a#k3"
  /\ identity = DocA
  /\ \E q \in ThrowingPasses(identity, lastCall.arg) :
       \A p \in PairingPasses(identity, lastCall.arg) : q < p

\* every pass threw or failed, and the call ended with NoMatchingPublicKey
C23_WitnessExhausted ==
  /\ lastCall.op = "addSigningParams"
  /\ lastCall.result = NO_PUBLIC_KEY
  /\ isResolved(identity)
  /\ ThrowingPasses(identity, lastCall.arg) # {}


(***************************************************************************)
(* Properties of Provider.validateRequest.                                 *)
(***************************************************************************)
\* C24: validateRequest hands on its resolvers argument when that is
\* non-empty; otherwise the non-empty list setUser stored; otherwise none.
\* An empty argument leaves the stored list in use, and neither the call
\* nor its completion changes the stored list or the signing-info set.
C24_ResolverPrecedence ==
  [][ /\ (validated.status = "none" /\ validated'.status # "none")
           => /\ validated'.given # << >> => validated'.passed = validated'.given
              /\ (validated'.given = << >> /\ provider_resolvers # << >>)
                   => validated'.passed = provider_resolvers
              /\ (validated'.given = << >> /\ provider_resolvers = << >>)
                   => validated'.passed = << >>
      /\ validated' # validated
           => /\ provider_resolvers' = provider_resolvers
              /\ signing_info_set' = signing_info_set ]_vars

\* C24 witness: validateRequest was called without resolvers on a Provider
\* whose setUser had stored one, and handed on the stored list.
C24_Witness ==
  /\ validated.status # "none"
  /\ validated.given = << >>
  /\ provider_resolvers = << "ethr" >>
  /\ validated.passed = << "ethr" >>

\* the argument won over a stored list
C24_WitnessArgumentWins ==
  /\ validated.status # "none"
  /\ validated.given = << "key" >>
  /\ provider_resolvers = << "ethr" >>
  /\ validated.passed = << "key" >>


(***************************************************************************)
(* Properties of the Provider under interleaving.                          *)
(***************************************************************************)
\* seq without its i-th element
Without(seq, i) == SubSeq(seq, 1, i - 1) \o SubSeq(seq, i + 1, Len(seq))

\* C25: a generate call that goes on to the builder hands it an entry the
\* signing-info set holds when the call is made (the index is within the
\* set); addSigningParams, removeSigningParams and setUser running while
\* the builder is awaited leave what it was handed alone; and the response
\* is signed with that entry, also when its kid has been removed since.
C25_SigningInfoFixedAtCall ==
  [][ /\ (lastCall'.op \in GenerateOps /\ lastCall'.result = "build")
           => \E i \in 1 .. Len(signing_info_set) :
                /\ inflight' = Append(inflight, [ op |-> lastCall'.op,
                                                  signing_info |-> signing_info_set[i] ])
                /\ lastCall'.kid = signing_info_set[i].kid
      /\ lastCall'.op \in { "addSigningParams", "removeSigningParams", "setUser" }
           => inflight' = inflight
      /\ lastCall'.op = "responseBuilt"
           => \E i \in 1 .. Len(inflight) :
                /\ inflight' = Without(inflight, i)
                /\ lastCall'.arg = inflight[i].op
                /\ lastCall'.kid = inflight[i].signing_info.kid ]_vars

\* C25 witness: a response was completed, signed with a kid that had been
\* removed from the set while the builder was awaited.
C25_Witness ==
  /\ lastCall.op = "responseBuilt"
  /\ lastCall.result = "ok"
  /\ lastCall.kid # ""
  /\ ever_removed
  /\ \A i \in 1 .. Len(signing_info_set) : signing_info_set[i].kid # lastCall.kid


(***************************************************************************)
(* Properties of the universal fallback resolver.                          *)
(***************************************************************************)
\* the positions of the chain that hold the universal resolver
FallbackAt(rs) == { i \in 1 .. Len(rs) : rs[i] = UniResolver }

\* C26: however the resolve calls on a chain that starts empty interleave,
\* the chain holds the universal resolver at most once.
C26_FallbackAppendedOnce == Cardinality(FallbackAt(resolvers)) <= 1

\* C26 witness: two resolve calls are under way at once on the chain that
\* was empty, both awaiting the one universal resolver it holds.
C26_Witness ==
  /\ resolvers = << UniResolver >>
  /\ \E c, d \in CallIds :
       /\ c # d
       /\ calls[c].pc = "awaiting" /\ calls[c].tried = << Invoke(UniResolver) >>
       /\ calls[d].pc = "awaiting" /\ calls[d].tried = << Invoke(UniResolver) >>

\* C27: the chain only grows, at its end: what it holds stays where it is,
\* the universal resolver a resolve call appended included, after that
\* call has ended too; so that a resolver added later stands behind the
\* universal resolver, and a call invokes it only after the universal
\* resolver has thrown or returned nothing.
C27_FallbackStaysFirst ==
  [][ /\ Len(resolvers') >= Len(resolvers)
      /\ SubSeq(resolvers', 1, Len(resolvers)) = resolvers
      /\ (resolvers # << >> /\ resolvers[1] = UniResolver)
           => \A c \in CallIds :
                Len(calls'[c].tried) > 1
                => /\ calls'[c].tried[1].resolver = UniResolver
                   /\ calls'[c].tried[1].outcome \in { "throw", "empty" }
                   /\ \A i \in 2 .. Len(calls'[c].tried) :
                        calls'[c].tried[i].resolver \in UserResolvers ]_vars

\* C27 witness: no call is awaiting the universal resolver any more, a
\* resolver added since stands behind it, and a call has invoked that
\* resolver after the universal resolver returned nothing.
C27_Witness ==
  /\ resolvers = << UniResolver, "ethr" >>
  /\ \E c \in CallIds :
       /\ Len(calls[c].tried) = 2
       /\ calls[c].tried[1] = [ resolver |-> UniResolver, outcome |-> "empty" ]
       /\ calls[c].tried[2].resolver = "ethr"
  /\ \A c \in CallIds : calls[c].pc # "awaiting" \/ Len(calls[c].tried) = 2


(***************************************************************************)
(* Properties of the keys uniExtractor.extract returns.                    *)
(***************************************************************************)
\* C28: a returned key of format ETHEREUM_ADDRESS is an EC key with
\* algorithm ES256K-R, whatever the type tag of its method; a method that
\* carries an Ethereum address is answered by the recovery handler and no
\* other, be it with a key or a refusal; and every returned key has a
\* non-empty publicKey.
C28_AddressKeysAreRecoverable ==
  extracted.ok
  => /\ extracted.format = "ETHEREUM_ADDRESS"
          => extracted.kty = "EC" /\ extracted.alg = "ES256K-R"
     /\ method.ethereumAddress # ""
          => extracted.kty = "EC" /\ extracted.alg = "ES256K-R"
     /\ extracted.publicKey # ""

\* C28 witness: a method with an RSA type tag and an Ethereum address
\* yielded a key of format ETHEREUM_ADDRESS.
C28_Witness ==
  /\ extracted.ok
  /\ method.type \in RsaTags
  /\ extracted.format = "ETHEREUM_ADDRESS"
  /\ extracted.publicKey = toChecksumAddress(method.ethereumAddress)

\* the converse fails: an ES256K-R key of a method that carries an address
\* and a hex key has the HEX format
C28_ConverseFails ==
  /\ extracted.ok
  /\ extracted.alg = "ES256K-R"
  /\ method.ethereumAddress # ""
  /\ extracted.format = "HEX"

(***************************************************************************)
(* Properties of the checks of the generate calls.                         *)
(***************************************************************************)
\* C29: a generate call on an empty signing-info set is rejected with
\* NoSigningInfo, the identity resolved or not; a generate call is rejected
\* with UnresolvedIdentity only on a non-empty set and an unresolved
\* identity.
C29_EmptinessBeforeResolution ==
  [][ lastCall'.op \in GenerateOps
      => /\ signing_info_set = << >> => lastCall'.result = NO_SIGNING_INFO
         /\ lastCall'.result = UNRESOLVED_IDENTITY
              => (signing_info_set # << >> /\ ~isResolved(identity)) ]_vars

\* C29 witness: generateResponseWithVPData on an unresolved identity whose
\* set is empty was rejected with NoSigningInfo, not UnresolvedIdentity.
C29_Witness ==
  /\ lastCall.op = "generateResponseWithVPData"
  /\ lastCall.result = NO_SIGNING_INFO
  /\ ~isResolved(identity)
  /\ signing_info_set = << >>

\* the same on a resolved identity
C29_WitnessResolved ==
  /\ lastCall.op = "generateResponseWithVPData"
  /\ lastCall.result = NO_SIGNING_INFO
  /\ isResolved(identity)

\* a generate call on a non-empty set rejected with UnresolvedIdentity
C29_WitnessUnresolvedIdentity ==
  /\ lastCall.op \in GenerateOps
  /\ lastCall.result = UNRESOLVED_IDENTITY
  /\ signing_info_set # << >>

====
